---- MODULE Spec2Model ----
(***************************************************************************)
(* A model of autoclick: the process-wide registries (composites,          *)
(* conversions, validations), the command build pass and the deferred      *)
(* post-parse pipeline that CommandMixin.parse_args runs on every          *)
(* invocation.                                                             *)
(*                                                                         *)
(* Python values are written as strings holding their repr ("None", "0",   *)
(* "''", "'foo'"), wrapped in a record so that literals and constructed    *)
(* objects live in one dictionary.  Identifiers (parameter names, long     *)
(* names) are sequences of characters, because the code builds and         *)
(* rewrites them character by character.                                   *)
(***************************************************************************)
EXTENDS Integers, Sequences, FiniteSets, TLC

VARIABLES
    COMPOSITES,     \* composites/__init__.py COMPOSITES: match type -> Composite
    CONVERSIONS,    \* types/__init__.py CONVERSIONS: type -> ParamTypeAdapter
    VALIDATIONS,    \* validations/__init__.py VALIDATIONS: type -> list of fns
    history,        \* the registration API calls made so far and what each raised
    cmd,            \* the command the build pass produced
    argv,           \* the command line of the invocation: a token per CLI primitive
    pc,             \* position of the invocation in CommandMixin.parse_args
    ctx,            \* ctx.params of the invocation
    ci,             \* index of the next composite callback to run
    log,            \* every function the invocation has called, in call order
    outcome         \* how the invocation ended

regVars == <<COMPOSITES, CONVERSIONS, VALIDATIONS, history>>
runVars == <<cmd, argv, pc, ctx, ci, log, outcome>>
vars == <<COMPOSITES, CONVERSIONS, VALIDATIONS, history,
          cmd, argv, pc, ctx, ci, log, outcome>>

----------------------------------------------------------------------------
(* Bounds *)

\* registration API calls explored from the empty registries
MaxRegs == 3

----------------------------------------------------------------------------
(* Python dictionaries and values *)

EmptyDict == [k \in {} |-> k]

DictSet(d, k, v) == [x \in DOMAIN d \cup {k} |-> IF x = k THEN v ELSE d[x]]

DictPop(d, k) == [x \in DOMAIN d \ {k} |-> d[x]]

DictGet(d, k, default) == IF k \in DOMAIN d THEN d[k] ELSE default

Lit(v) == [tag |-> "lit", v |-> v, kw |-> EmptyDict]

Obj(cls, kwargs) == [tag |-> "obj", v |-> cls, kw |-> kwargs]

None == Lit("None")

\* bool(value): what filter(None, ...) and `if v` keep
Truthy(val) == ~(val.tag = "lit" /\ val.v \in {"None", "0", "False", "''", "()"})

SeqToSet(s) == {s[i] : i \in 1..Len(s)}

----------------------------------------------------------------------------
(* Identifiers *)

n_foo == <<"f", "o", "o">>
n_bar == <<"b", "a", "r">>
n_baz == <<"b", "a", "z">>
n_num == <<"n", "u", "m">>
n_name == <<"n", "a", "m", "e">>
n_a_b == <<"a", "_", "b">>
n_span == <<"s", "p", "a", "n">>
n_dry == <<"d", "r", "y">>
n_no_cache == <<"n", "o", "_", "c", "a", "c", "h", "e">>
n_verbose == <<"v", "e", "r", "b", "o", "s", "e">>
n_opts == <<"o", "p", "t", "s">>
n_flag == <<"f", "l", "a", "g">>
n_level == <<"l", "e", "v", "e", "l">>
n_tag == <<"t", "a", "g">>
n_a == <<"a">>
n_b == <<"b">>
n_args == <<"a", "r", "g", "s">>
n_kwargs == <<"k", "w", "a", "r", "g", "s">>
n_x == <<"x">>
n_value == <<"v", "a", "l", "u", "e">>
n_param_name == <<"p", "a", "r", "a", "m", "_", "n", "a", "m", "e">>
n_age == <<"a", "g", "e">>
n_either == <<"e", "i", "t", "h", "e", "r">>
n_spread == <<"s", "p", "r", "e", "a", "d">>
n_loose == <<"l", "o", "o", "s", "e">>
n_first == <<"f", "i", "r", "s", "t">>
n_second == <<"s", "e", "c", "o", "n", "d">>

----------------------------------------------------------------------------
(* Type annotations.  An annotation is named by its source text; the tables *)
(* below give what the typing module reports about it.                      *)

\* inspect.Signature.empty
EMPTY == "EMPTY"

\* __args__ of a Union annotation, {} for an annotation that is no Union
UnionArgs(anno) ==
    CASE anno = "Optional[float]" -> {"float", "NoneType"}
      [] anno = "Optional[str]" -> {"str", "NoneType"}
      [] anno = "Optional[Foo]" -> {"Foo", "NoneType"}
      [] anno = "Optional[Opts]" -> {"Opts", "NoneType"}
      [] anno = "Optional[int]" -> {"int", "NoneType"}
      [] anno = "Optional[PosInt]" -> {"PosInt", "NoneType"}
      [] anno = "Union[int, str]" -> {"int", "str"}
      [] OTHER -> {}

\* __supertype__ of a NewType, EMPTY for an annotation that is no NewType
Supertype(anno) ==
    CASE anno = "PosInt" -> "int"
      [] OTHER -> EMPTY

\* type(default) for the default values the model uses
TypeOfValue(val) ==
    CASE val = Lit("None") -> "NoneType"
      [] val \in {Lit("False"), Lit("True")} -> "bool"
      [] val \in {Lit("-1"), Lit("0"), Lit("1"), Lit("5")} -> "int"
      [] OTHER -> "str"

----------------------------------------------------------------------------
(* Signatures of the callables that get decorated *)

POSITIONAL_OR_KEYWORD == "POSITIONAL_OR_KEYWORD"
VAR_POSITIONAL == "VAR_POSITIONAL"
VAR_KEYWORD == "VAR_KEYWORD"

SigParam(name, anno, default, kind) ==
    [name |-> name, annotation |-> anno, default |-> default, kind |-> kind]

Pos(name, anno, default) == SigParam(name, anno, default, POSITIONAL_OR_KEYWORD)

NoDefault == Lit(EMPTY)

\* classes, whose __init__ is inspected with `self` removed
Classes == {"Foo", "Opts", "Bar", "Var", "Kw", "Span"}

\* factory functions
Factories == {"make_foo", "make_any", "make_var"}

\* inspect.signature(target).parameters
Signature(target) ==
    CASE target = "Foo" ->
           <<Pos(n_num, "int", NoDefault), Pos(n_name, "str", Lit("'foo'"))>>
      [] target = "Opts" ->
           <<Pos(n_level, "int", Lit("None")), Pos(n_tag, "str", Lit("None")),
             Pos(n_flag, "bool", Lit("None"))>>
      [] target = "Bar" ->
           <<Pos(n_foo, "Foo", NoDefault)>>
      [] target = "Span" ->
           <<Pos(n_a, "int", NoDefault), Pos(n_b, "int", Lit("0"))>>
      [] target = "Var" ->
           <<Pos(n_x, "int", NoDefault),
             SigParam(n_args, EMPTY, NoDefault, VAR_POSITIONAL)>>
      [] target = "Kw" ->
           <<SigParam(n_kwargs, EMPTY, NoDefault, VAR_KEYWORD)>>
      [] target = "make_foo" ->
           <<Pos(n_num, "int", NoDefault)>>
      [] target = "make_any" ->
           <<Pos(n_x, "int", NoDefault),
             SigParam(n_kwargs, EMPTY, NoDefault, VAR_KEYWORD)>>
      [] target = "make_var" ->
           <<SigParam(n_args, EMPTY, NoDefault, VAR_POSITIONAL)>>
      [] target \in {"nonneg", "nonzero"} ->
           <<Pos(n_value, "int", NoDefault), Pos(n_param_name, "str", Lit("None"))>>
      [] target = "bare" ->
           <<Pos(n_param_name, "str", NoDefault), Pos(n_value, "int", NoDefault)>>
      [] target = "simple" ->
           <<Pos(n_foo, "Foo", NoDefault), Pos(n_bar, "int", Lit("1")),
             Pos(n_baz, "Optional[float]", Lit("None"))>>
      [] target = "rewrite" ->
           <<Pos(n_foo, "Foo", NoDefault), Pos(n_a, "int", Lit("1")),
             Pos(n_b, "int", Lit("0"))>>
      [] target = "maybe" ->
           <<Pos(n_opts, "Optional[Opts]", Lit("None"))>>
      [] target = "chain" ->
           <<Pos(n_a, "int", Lit("1")), Pos(n_b, "int", Lit("0"))>>
      [] target = "pair" ->
           <<Pos(n_first, "Foo", NoDefault), Pos(n_second, "Foo", NoDefault)>>
      [] target = "spanned" ->
           <<Pos(n_span, "Span", NoDefault)>>
      [] target = "swapped" ->
           <<Pos(n_first, "Foo", NoDefault), Pos(n_second, "Foo", NoDefault),
             Pos(n_bar, "int", Lit("1"))>>
      [] target = "plain" ->
           <<Pos(n_x, "int", NoDefault), Pos(n_level, "Optional[int]", NoDefault),
             Pos(n_tag, "str", Lit("None")), Pos(n_bar, "int", Lit("1")),
             Pos(n_baz, "Optional[float]", Lit("None"))>>
      [] target = "aged" ->
           <<Pos(n_age, "PosInt", NoDefault), Pos(n_a, "Optional[PosInt]", Lit("None")),
             Pos(n_b, "int", Lit("0"))>>
      [] target = "either" ->
           <<Pos(n_either, "Union[int, str]", Lit("0")), Pos(n_bar, "int", Lit("1"))>>
      [] target = "spread" ->
           <<Pos(n_x, "int", NoDefault),
             SigParam(n_args, EMPTY, NoDefault, VAR_POSITIONAL),
             SigParam(n_kwargs, EMPTY, NoDefault, VAR_KEYWORD)>>
      [] target = "flags" ->
           <<Pos(n_dry, "bool", NoDefault), Pos(n_no_cache, "bool", Lit("False")),
             Pos(n_verbose, "bool", Lit("False"))>>
      [] target = "under" ->
           <<Pos(n_a_b, "int", Lit("0")), Pos(n_bar, "int", Lit("1"))>>
      [] target = "loose" ->
           <<Pos(n_bar, "int", Lit("1")),
             SigParam(n_kwargs, EMPTY, NoDefault, VAR_KEYWORD)>>
      [] OTHER -> <<>>

\* inspect.signature(f).return_annotation
ReturnAnnotation(f) ==
    CASE f = "make_foo" -> "Foo"
      [] f = "make_var" -> "Foo"
      [] f = "to_int" -> "int"
      [] f = "to_foo" -> "Foo"
      [] OTHER -> EMPTY

----------------------------------------------------------------------------
(* click types *)

\* no explicit click type was given for the parameter (types.get(name, None))
NoClickType == [name |-> "None", fn |-> "None", depends |-> <<>>, adapter |-> FALSE]

\* a plain Python type used as the click type
PlainType(t) == [name |-> t, fn |-> t, depends |-> <<>>, adapter |-> FALSE]

\* ParamTypeAdapter(name, fn): fn is the decorated function, wrapped in
\* composite_conversion when depends is not empty
ParamTypeAdapter(name, fn, depends) ==
    [name |-> name, fn |-> fn, depends |-> depends, adapter |-> TRUE]

----------------------------------------------------------------------------
(* ParameterInfo *)

\* ParameterInfo.__init__, `self.optional = not (required or param.default is EMPTY)`
ParameterInfo_optional(sp, required) == ~(required \/ sp.default = NoDefault)

\* ParameterInfo.__init__, the annotation: a missing one is str for a required
\* parameter and the type of the default otherwise
ParameterInfo_anno_type(sp, optional) ==
    IF sp.annotation \in {EMPTY, "None"}
    THEN (IF ~optional THEN "str" ELSE TypeOfValue(sp.default))
    ELSE sp.annotation

\* the annotation is a Union
IsUnion(anno) == UnionArgs(anno) # {}

\* the annotation is Optional[T]: a Union with one member besides NoneType
IsOptional(anno) == IsUnion(anno) /\ Cardinality(UnionArgs(anno) \ {"NoneType"}) = 1

\* Optional[T] is replaced by T
StripOptional(anno) ==
    IF IsOptional(anno) THEN CHOOSE t \in UnionArgs(anno) \ {"NoneType"} : TRUE ELSE anno

\* a NewType is replaced by its supertype
StripNewType(anno) == IF Supertype(anno) # EMPTY THEN Supertype(anno) ELSE anno

\* ParameterInfo.__init__, the click type: the explicit one, else the
\* registered conversion of the match type, else the annotated type itself
ParameterInfo_click_type(click_type, match_type, anno_type, conversions) ==
    IF click_type # NoClickType THEN click_type
    ELSE IF match_type \in DOMAIN conversions
    THEN conversions[match_type]
    ELSE PlainType(anno_type)

\* a faulty resolution in which an Optional annotation does not mark the
\* parameter optional
ParameterInfo_fields_unmarked(sp, optional, anno, match_type, ctype) ==
    [name |-> sp.name,
     anno_type |-> StripNewType(match_type),
     match_type |-> match_type,
     click_type |-> ctype,
     optional |-> optional,
     default |-> sp.default,
     nargs |-> 1,
     multiple |-> FALSE,
     extra_arguments |-> sp.kind = VAR_POSITIONAL,
     extra_kwargs |-> sp.kind = VAR_KEYWORD,
     is_flag |-> ctype = PlainType("bool"),
     error |-> IF IsUnion(anno) /\ ~IsOptional(anno) THEN "SignatureError" ELSE "none"]

\* the fields of the ParameterInfo, once the types are resolved
ParameterInfo_fields(sp, optional, anno, match_type, ctype) ==
    [name |-> sp.name,
     anno_type |-> StripNewType(match_type),
     match_type |-> match_type,
     click_type |-> ctype,
     optional |-> optional \/ IsOptional(anno),
     default |-> sp.default,
     nargs |-> 1,
     multiple |-> FALSE,
     extra_arguments |-> sp.kind = VAR_POSITIONAL,
     extra_kwargs |-> sp.kind = VAR_KEYWORD,
     is_flag |-> ctype = PlainType("bool"),
     error |-> IF IsUnion(anno) /\ ~IsOptional(anno) THEN "SignatureError" ELSE "none"]

\* a faulty resolution in which a NewType is looked up under its supertype
ParameterInfo_typed_by_base(sp, click_type, optional, anno, conversions) ==
    ParameterInfo_fields(sp, optional, anno, StripNewType(StripOptional(anno)),
        ParameterInfo_click_type(click_type, StripNewType(StripOptional(anno)),
                                 StripNewType(StripOptional(anno)), conversions))

\* ParameterInfo.__init__ from the annotation on
ParameterInfo_typed(sp, click_type, optional, anno, conversions) ==
    ParameterInfo_fields(sp, optional, anno, StripOptional(anno),
        ParameterInfo_click_type(click_type, StripOptional(anno),
                                 StripNewType(StripOptional(anno)), conversions))

\* ParameterInfo.__init__; error is the exception it raises, "none" if none.
\* Every annotation of the model is a scalar class, so nargs stays 1 and
\* multiple stays False.
ParameterInfo(sp, click_type, required, conversions) ==
    ParameterInfo_typed(sp, click_type, ParameterInfo_optional(sp, required),
        ParameterInfo_anno_type(sp, ParameterInfo_optional(sp, required)),
        conversions)

----------------------------------------------------------------------------
(* BaseDecorator *)

\* the keyword arguments of a decorator that the model varies; the others
\* keep their defaults
DecoratorKwargs(option_order, conditionals, validations, required) ==
    [keep_underscores |-> TRUE,
     short_names |-> EmptyDict,
     infer_short_names |-> TRUE,
     option_order |-> option_order,
     positionals_as_options |-> FALSE,
     conditionals |-> conditionals,
     validations |-> validations,
     required |-> required]

DefaultKwargs == DecoratorKwargs(<<>>, <<>>, <<>>, {})

\* one entry of a conditionals/validations dict: (names) -> [fns]
Group(names, fns) == [names |-> names, fns |-> fns]

\* an entry of the conditionals or validations dict a caller passes: the key
\* is a tuple of names (field names) or one name (field name), the value a
\* list of functions (field fns) or one function (field fn)
KeyTuple(entry) == IF "names" \in DOMAIN entry THEN entry.names ELSE <<entry.name>>

\* BaseDecorator.__init__._as_many_to_many, the value of one entry:
\* `list(v) if v and not isinstance(v, list) else v`; list(v) of a function
\* raises TypeError, as a function is not iterable
ValueList(entry) == IF "fns" \in DOMAIN entry THEN entry.fns ELSE <<>>

\* BaseDecorator.__init__._as_many_to_many: the dict keyed by tuples, and the
\* exception raised
as_many_to_many(d) ==
    [result |-> [i \in 1..Len(d) |-> Group(KeyTuple(d[i]), ValueList(d[i]))],
     error |-> IF \E i \in 1..Len(d) : "fns" \notin DOMAIN d[i]
               THEN "TypeError" ELSE "none"]

\* BaseDecorator.__init__: the decorator's own state.  A dict keyed by name
\* tuples is a sequence of groups in insertion order.
BaseDecorator(kwargs) ==
    [keep_underscores |-> kwargs.keep_underscores,
     short_names |-> kwargs.short_names,
     infer_short_names |-> kwargs.infer_short_names,
     option_order |-> kwargs.option_order,
     positionals_as_options |-> kwargs.positionals_as_options,
     conditionals |-> as_many_to_many(kwargs.conditionals).result,
     validations |-> as_many_to_many(kwargs.validations).result,
     required |-> kwargs.required,
     parameters |-> <<>>,
     allow_extra_arguments |-> FALSE,
     allow_extra_kwargs |-> FALSE,
     error |-> IF as_many_to_many(kwargs.conditionals).error # "none"
               THEN as_many_to_many(kwargs.conditionals).error
               ELSE as_many_to_many(kwargs.validations).error]

\* `param.name not in self._validations`: the keys of the dict are tuples of
\* names and param.name is a str, which equals no tuple
NameInDict(name, d) == FALSE

\* d[(name,)] = []; d[(name,)].extend(fns): an existing key keeps its place
ResetAndExtend(d, name, fns) ==
    IF \E i \in 1..Len(d) : d[i].names = <<name>>
    THEN [i \in 1..Len(d) |->
            IF d[i].names = <<name>> THEN Group(<<name>>, fns) ELSE d[i]]
    ELSE Append(d, Group(<<name>>, fns))

\* d[(name,)].extend(fns); a missing key raises KeyError
Extend(d, name, fns) ==
    [i \in 1..Len(d) |->
        IF d[i].names = <<name>> THEN Group(<<name>>, d[i].fns \o fns) ELSE d[i]]

\* BaseDecorator._handle_parameter_info
BaseDecorator_handle_parameter_info(dec, param, validations) ==
    LET order == IF param.name \in SeqToSet(dec.option_order)
                 THEN dec.option_order
                 ELSE Append(dec.option_order, param.name)
        hasKey == \E i \in 1..Len(dec.validations) :
                      dec.validations[i].names = <<param.name>>
        vals == IF param.match_type \in DOMAIN validations
                THEN IF ~NameInDict(param.name, dec.validations)
                     THEN ResetAndExtend(dec.validations, param.name,
                                         validations[param.match_type])
                     ELSE Extend(dec.validations, param.name,
                                 validations[param.match_type])
                ELSE dec.validations
        keyError == /\ param.match_type \in DOMAIN validations
                    /\ NameInDict(param.name, dec.validations)
                    /\ ~hasKey
    IN [dec |-> [dec EXCEPT !.option_order = order,
                            !.validations = vals,
                            !.error = IF keyError THEN "KeyError" ELSE "none"],
        keep |-> TRUE]

\* a faulty Composite._handle_parameter_info that lets *args and **kwargs pass
Lenient_handle_parameter_info(dec, param, validations) ==
    BaseDecorator_handle_parameter_info(dec, param, validations)

\* Composite._handle_parameter_info
Composite_handle_parameter_info(dec, param, validations) ==
    IF param.extra_arguments \/ param.extra_kwargs
    THEN [dec |-> [dec EXCEPT !.error = "SignatureError"], keep |-> FALSE]
    ELSE BaseDecorator_handle_parameter_info(dec, param, validations)

\* BaseCommandDecorator._handle_parameter_info
BaseCommandDecorator_handle_parameter_info(dec, param, validations) ==
    IF param.extra_arguments
    THEN [dec |-> [dec EXCEPT !.allow_extra_arguments = TRUE], keep |-> FALSE]
    ELSE IF param.extra_kwargs
    THEN [dec |-> [dec EXCEPT !.allow_extra_kwargs = TRUE], keep |-> FALSE]
    ELSE BaseDecorator_handle_parameter_info(dec, param, validations)

\* self._handle_parameter_info, dispatched on the decorator's class
HandleParameterInfo(cls, dec, param, validations) ==
    IF cls = "Composite"
    THEN Composite_handle_parameter_info(dec, param, validations)
    ELSE BaseCommandDecorator_handle_parameter_info(dec, param, validations)

\* BaseDecorator._get_parameter_info, the end of one iteration: the parameter
\* is appended to the list unless the handler dropped it
KeepParameter(r, param) ==
    IF r.dec.error = "none" /\ r.keep
    THEN [r.dec EXCEPT !.parameters = Append(@, param)]
    ELSE r.dec

\* BaseDecorator._get_parameter_info, one iteration for the parameter info built
HandleParameter(cls, dec, param, validations) ==
    IF param.error # "none" THEN [dec EXCEPT !.error = param.error]
    ELSE KeepParameter(HandleParameterInfo(cls, dec, param, validations), param)

\* BaseDecorator._get_parameter_info: the loop over the signature, from
\* parameter i on; an exception ends it
RECURSIVE GetParameterInfoFrom(_, _, _, _, _, _)
GetParameterInfoFrom(cls, sig, i, dec, conversions, validations) ==
    IF i > Len(sig) \/ dec.error # "none" THEN dec
    ELSE GetParameterInfoFrom(cls, sig, i + 1,
            HandleParameter(cls, dec,
                ParameterInfo(sig[i], NoClickType, sig[i].name \in dec.required,
                              conversions),
                validations),
            conversions, validations)

\* BaseDecorator._get_parameter_info
GetParameterInfo(cls, decorated, dec, conversions, validations) ==
    GetParameterInfoFrom(cls, Signature(decorated), 1, dec, conversions, validations)

----------------------------------------------------------------------------
(* utils *)

\* utils.get_dest_type
get_dest_type(f) ==
    LET dest_type == ReturnAnnotation(f)
    IN [type |-> dest_type,
        error |-> IF dest_type \in {EMPTY, "None"} THEN "ValueError" ELSE "none"]

\* utils.get_match_type
get_match_type(f) ==
    LET params == Signature(f)
    IN IF Len(params) = 0 THEN [type |-> EMPTY, error |-> "ValueError"]
       ELSE IF \E i \in 2..Len(params) : params[i].default = NoDefault
       THEN [type |-> EMPTY, error |-> "ValueError"]
       ELSE [type |-> params[1].annotation, error |-> "none"]

----------------------------------------------------------------------------
(* The composite registry *)

\* a faulty has_composite that never finds a type
has_composite_never(type_, composites) == FALSE

\* composites.has_composite
has_composite(type_, composites) == type_ \in DOMAIN composites

\* composites.register_composite
register_composite(type_, composite, composites) == DictSet(composites, type_, composite)

\* composites.get_composite; a record with decorated = "None" stands for None
NoComposite ==
    [decorated |-> "None", match_type |-> "None", parameters_as_args |-> FALSE,
     force_create |-> FALSE, dec |-> BaseDecorator(DefaultKwargs)]

get_composite(type_, composites) == DictGet(composites, type_, NoComposite)

\* the Composite object after Composite.__init__ and _get_parameter_info
CompositeObject(decorated, match_type, parameters_as_args, force_create, dec) ==
    [decorated |-> decorated, match_type |-> match_type,
     parameters_as_args |-> parameters_as_args, force_create |-> force_create,
     dec |-> dec]

\* Composite._create_decorator after _get_parameter_info: the collision check
\* and the registration
Composite_register(self, composites) ==
    IF self.dec.error # "none"
    THEN [error |-> self.dec.error, composites |-> composites]
    ELSE IF has_composite(self.match_type, composites)
    THEN [error |-> "TypeCollisionError", composites |-> composites]
    ELSE [error |-> "none",
          composites |-> register_composite(self.match_type, self, composites)]

\* Composite._create_decorator with the match type already known: the new
\* registry and the exception raised
Composite_create_decorator(decorated, match_type, parameters_as_args, force_create, kwargs, composites, conversions, validations) ==
    Composite_register(
        CompositeObject(decorated, match_type, parameters_as_args, force_create,
            GetParameterInfo("Composite", decorated, BaseDecorator(kwargs),
                             conversions, validations)),
        composites)

\* composite_type(...)(cls): the class is its own match type
composite_type(cls, parameters_as_args, force_create, kwargs, composites, conversions, validations) ==
    Composite_create_decorator(cls, cls, parameters_as_args, force_create, kwargs,
                               composites, conversions, validations)

\* the destination type of a decorator: the one given, else the return
\* annotation of the decorated function
DestType(f, dest_type) ==
    IF dest_type = "None" THEN get_dest_type(f)
    ELSE [type |-> dest_type, error |-> "none"]

\* composite_factory._create_decorator, once the destination type is known
composite_factory_for(f, target, parameters_as_args, force_create, kwargs, composites, conversions, validations) ==
    IF target.error # "none"
    THEN [error |-> target.error, composites |-> composites]
    ELSE Composite_create_decorator(f, target.type, parameters_as_args,
                                    force_create, kwargs,
                                    composites, conversions, validations)

\* composite_factory(dest_type, ...)(f): composite_factory._create_decorator
composite_factory(f, dest_type, parameters_as_args, force_create, kwargs, composites, conversions, validations) ==
    composite_factory_for(f, DestType(f, dest_type), parameters_as_args,
                          force_create, kwargs, composites, conversions, validations)

\* the arguments of one call of the registration API
Call(op, fn, type_, depends) == [op |-> op, fn |-> fn, type |-> type_, depends |-> depends]

NoCall == Call("none", "None", "None", <<>>)

\* the call is made: it is recorded with the exception it raised
Record(call, error) ==
    /\ Len(history) < MaxRegs
    /\ history' = Append(history, [call |-> call, error |-> error])

nreg == Len(history)

lastCall == IF history = <<>> THEN NoCall ELSE history[Len(history)].call

lastError == IF history = <<>> THEN "none" ELSE history[Len(history)].error

\* @composite_type() applied to class cls
CompositeType(cls) ==
    LET r == composite_type(cls, FALSE, FALSE, DefaultKwargs,
                            COMPOSITES, CONVERSIONS, VALIDATIONS)
    IN /\ Record(Call("composite_type", cls, cls, <<>>), r.error)
       /\ COMPOSITES' = r.composites
       /\ UNCHANGED <<CONVERSIONS, VALIDATIONS, runVars>>

\* @composite_factory(dest_type) applied to function f
CompositeFactory(f, dest_type) ==
    LET r == composite_factory(f, dest_type, FALSE, FALSE, DefaultKwargs,
                               COMPOSITES, CONVERSIONS, VALIDATIONS)
    IN /\ Record(Call("composite_factory", f, dest_type, <<>>), r.error)
       /\ COMPOSITES' = r.composites
       /\ UNCHANGED <<CONVERSIONS, VALIDATIONS, runVars>>

----------------------------------------------------------------------------
(* The conversion registry *)

\* a faulty register_conversion that keeps the first conversion of a type
register_conversion_once(type_, click_type, conversions) ==
    IF type_ \in DOMAIN conversions THEN conversions
    ELSE DictSet(conversions, type_, click_type)

\* types.register_conversion
register_conversion(type_, click_type, conversions) == DictSet(conversions, type_, click_type)

\* types.has_conversion
has_conversion(type_, conversions) == type_ \in DOMAIN conversions

\* types.get_conversion.  No type of the model is an enum, a mapping or a
\* collection, so no autoconversion applies and the fallback is the true type.
get_conversion(match_type, true_type, conversions) ==
    IF match_type \in DOMAIN conversions THEN conversions[match_type]
    ELSE PlainType(IF true_type = "None" THEN match_type ELSE true_type)

\* types.conversion.decorator, once the destination type is known
conversion_for(f, dest, depends, conversions) ==
    IF dest.error # "none"
    THEN [error |-> dest.error, conversions |-> conversions]
    ELSE [error |-> "none",
          conversions |-> register_conversion(dest.type,
                              ParamTypeAdapter(dest.type, f, depends), conversions)]

\* types.conversion(dest_type, depends)(f)
conversion(f, dest_type, depends, conversions) ==
    conversion_for(f, DestType(f, dest_type), depends, conversions)

\* @conversion(dest_type, depends) applied to function f
Conversion(f, dest_type, depends) ==
    LET r == conversion(f, dest_type, depends, CONVERSIONS)
    IN /\ Record(Call("conversion", f, dest_type, depends), r.error)
       /\ CONVERSIONS' = r.conversions
       /\ UNCHANGED <<COMPOSITES, VALIDATIONS, runVars>>

\* ParamTypeAdapter.convert(value, param, ctx): the functions it calls, in
\* order, and the exception raised.  self.fn is called with three positional
\* arguments; composite_conversion(value) accepts one.
ParamTypeAdapter_convert(click_type) ==
    IF click_type.depends = <<>>
    THEN [calls |-> <<click_type.fn>>, error |-> "none"]
    ELSE [calls |-> <<>>, error |-> "TypeError"]

\* click asks the parameter's type to convert a raw value: a registered
\* adapter's convert is called, a plain type is called itself
ClickConvert(click_type) ==
    IF click_type.adapter THEN ParamTypeAdapter_convert(click_type)
    ELSE [calls |-> <<click_type.fn>>, error |-> "none"]

\* the parsing engine converts a raw value for a parameter of type type_
Convert(type_) ==
    LET r == ClickConvert(get_conversion(type_, "None", CONVERSIONS))
    IN /\ Record(Call("convert", "None", type_, r.calls), r.error)
       /\ UNCHANGED <<COMPOSITES, CONVERSIONS, VALIDATIONS, runVars>>

----------------------------------------------------------------------------
(* The validation registry *)

\* validations.register_validation
register_validation(type_, validation_fn, validations) ==
    DictSet(validations, type_,
            Append(DictGet(validations, type_, <<>>), validation_fn))

\* validations.has_validations
has_validations(type_, validations) == type_ \in DOMAIN validations

\* validations.get_validations; <<>> stands for None
get_validations(type_, validations) == DictGet(validations, type_, <<>>)

\* the call_target closure validation.decorator registers and returns: it
\* wraps f, preceded by its dependencies
CallTarget(f, depends) == [kind |-> "call_target", fn |-> f, depends |-> depends]

\* a function given directly in a decorator's validations/conditionals dict
Raw(f) == [kind |-> "raw", fn |-> f, depends |-> <<>>]

\* the match type of a validation: the one given, else the annotation of the
\* first parameter of the decorated function
MatchType(f, match_type) ==
    IF match_type = "None" THEN get_match_type(f)
    ELSE [type |-> match_type, error |-> "none"]

\* validations.validation.decorator, once _match_type is known: the function
\* is registered under match_type, the decorator's argument
validation_for(f, match_type, inferred, depends, validations) ==
    IF inferred.error # "none"
    THEN [error |-> inferred.error, validations |-> validations]
    ELSE [error |-> "none",
          validations |-> register_validation(match_type, CallTarget(f, depends),
                                              validations)]

\* validations.validation(match_type, depends)(f)
validation(f, match_type, depends, validations) ==
    validation_for(f, match_type, MatchType(f, match_type), depends, validations)

\* @validation(match_type, depends) applied to function f
Validation(f, match_type, depends) ==
    LET r == validation(f, match_type, depends, VALIDATIONS)
    IN /\ Record(Call("validation", f, match_type, depends), r.error)
       /\ VALIDATIONS' = r.validations
       /\ UNCHANGED <<COMPOSITES, CONVERSIONS, runVars>>

----------------------------------------------------------------------------
(* The registries from module load on *)

\* no command has been built and none is running
NoCommand ==
    [name |-> "None", params |-> <<>>, conditionals |-> <<>>, validations |-> <<>>,
     composite_callbacks |-> <<>>, callback |-> "None", used_short_names |-> {},
     short_name_calls |-> <<>>, option_order |-> <<>>, commands |-> <<>>,
     allow_extra_arguments |-> FALSE, ignore_unknown_options |-> FALSE, error |-> "none"]

RunIdle ==
    /\ cmd = NoCommand
    /\ argv = <<>>
    /\ pc = "idle"
    /\ ctx = EmptyDict
    /\ ci = 0
    /\ log = <<>>
    /\ outcome = "none"

\* the registries as the modules define them: empty
InitRegistry ==
    /\ COMPOSITES = EmptyDict
    /\ CONVERSIONS = EmptyDict
    /\ VALIDATIONS = EmptyDict
    /\ history = <<>>
    /\ RunIdle

NextComposites ==
    \/ \E cls \in Classes : CompositeType(cls)
    \/ \E f \in Factories, dest_type \in {"None", "Foo"} : CompositeFactory(f, dest_type)

SpecComposites == InitRegistry /\ [][NextComposites]_vars

NextConversions ==
    \/ \E f \in {"to_int", "to_foo", "parse"}, dest_type \in {"None", "int"},
          depends \in {<<>>, <<"strip">>} : Conversion(f, dest_type, depends)
    \/ \E type_ \in {"int", "Foo"} : Convert(type_)

SpecConversions == InitRegistry /\ [][NextConversions]_vars

NextValidations ==
    \E f \in {"nonneg", "nonzero", "bare"}, match_type \in {"None", "int", "str"},
       depends \in {<<>>, <<"nonneg">>} : Validation(f, match_type, depends)

SpecValidations == InitRegistry /\ [][NextValidations]_vars

----------------------------------------------------------------------------
(* The command build pass *)

\* a tuple or list of Python values
TupleValue(values) == [tag |-> "tuple", v |-> "tuple", kw |-> values]

ReplaceChar(s, from, to) == [i \in 1..Len(s) |-> IF s[i] = from THEN to ELSE s[i]]

\* f"{prefix}_{name}"
Prefixed(prefix, name) == prefix \o <<"_">> \o name

\* BaseDecorator._get_long_name; the prefix <<>> stands for None
get_long_name(dec, name, prefix) ==
    IF dec.keep_underscores
    THEN (IF prefix # <<>> THEN Prefixed(prefix, name) ELSE name)
    ELSE ReplaceChar(IF prefix # <<>> THEN Prefixed(prefix, name) ELSE name, "_", "-")

\* the name click gives a parameter declared with a long name: the key of
\* its value in ctx.params
ClickName(long_name) == ReplaceChar(long_name, "-", "_")

\* the letters of ALPHA_CHARS, lower case and upper case
LowerCase ==
    <<"a", "b", "c", "d", "e", "f", "g", "h", "i", "j", "k", "l", "m",
      "n", "o", "p", "q", "r", "s", "t", "u", "v", "w", "x", "y", "z">>

UpperCase ==
    <<"A", "B", "C", "D", "E", "F", "G", "H", "I", "J", "K", "L", "M",
      "N", "O", "P", "Q", "R", "S", "T", "U", "V", "W", "X", "Y", "Z">>

ALPHA_CHARS == SeqToSet(LowerCase) \cup SeqToSet(UpperCase)

\* char.isalpha(), char.lower() and char.upper() for the characters of the
\* model: the letters, "_" and "-"
IsAlpha(char) == char \in ALPHA_CHARS

LetterPlace(char) ==
    CHOOSE i \in 1..Len(LowerCase) : LowerCase[i] = char \/ UpperCase[i] = char

Lower(char) == IF IsAlpha(char) THEN LowerCase[LetterPlace(char)] ELSE char

Upper(char) == IF IsAlpha(char) THEN UpperCase[LetterPlace(char)] ELSE char

\* a faulty scan that stops at the first letter of the name and takes its
\* upper-case form when the lower-case one is in use, whether or not the
\* upper-case form is free
InferFromName_first_letter(name, i, used_short_names) ==
    IF i > Len(name) THEN ""
    ELSE IF IsAlpha(name[i]) /\ Lower(name[i]) \notin used_short_names
    THEN Lower(name[i])
    ELSE Upper(name[i])

\* BaseDecorator._get_short_name, `for char in name`: the short name the
\* loop breaks with, "" when it ends without a break
RECURSIVE InferFromName(_, _, _)
InferFromName(name, i, used_short_names) ==
    IF i > Len(name) THEN ""
    ELSE IF IsAlpha(name[i]) /\ Lower(name[i]) \notin used_short_names
    THEN Lower(name[i])
    ELSE IF IsAlpha(name[i]) /\ Upper(name[i]) \notin used_short_names
    THEN Upper(name[i])
    ELSE InferFromName(name, i + 1, used_short_names)

\* remaining.pop(): an arbitrary member of the set.  The choice is the
\* parameter pop, a place in the order a..zA..Z: the member popped is the
\* first of remaining at or after that place, taken cyclically, so that
\* every member is popped for some pop.
Pop(remaining, pop) ==
    (LowerCase \o UpperCase)[
        CHOOSE i \in 1..Len(LowerCase \o UpperCase) :
            /\ (LowerCase \o UpperCase)[i] \in remaining
            /\ \A j \in 1..Len(LowerCase \o UpperCase) :
                  (LowerCase \o UpperCase)[j] \in remaining
                     => ((i - pop) % Len(LowerCase \o UpperCase))
                           <= ((j - pop) % Len(LowerCase \o UpperCase))]

\* what _get_short_name returns ("" stands for None) or raises
ShortName(short_name, error) == [short_name |-> short_name, error |-> error]

\* a faulty fallback that takes a letter of the alphabet whether or not it
\* is in use, and so never fails
InferFromAlphabet(remaining, pop) == ShortName((LowerCase \o UpperCase)[pop], "none")

\* BaseDecorator._get_short_name, the else of the for loop
InferFromRemaining(remaining, pop) ==
    IF remaining = {} THEN ShortName("", "BadParameter")
    ELSE ShortName(Pop(remaining, pop), "none")

\* a faulty lookup that never finds a given short name in the set, and lets
\* two options carry it
get_short_name_unchecked(dec, name, short_name, used_short_names, pop) ==
    IF short_name = "" /\ dec.infer_short_names
    THEN IF InferFromName(name, 1, used_short_names) # ""
         THEN ShortName(InferFromName(name, 1, used_short_names), "none")
         ELSE InferFromRemaining(ALPHA_CHARS \ used_short_names, pop)
    ELSE ShortName(short_name, "none")

\* BaseDecorator._get_short_name, once self._short_names.get(name) is known
get_short_name_given(dec, name, short_name, used_short_names, pop) ==
    IF short_name # "" /\ short_name \in used_short_names
    THEN ShortName("", "ParameterCollisionError")
    ELSE IF short_name = "" /\ dec.infer_short_names
    THEN IF InferFromName(name, 1, used_short_names) # ""
         THEN ShortName(InferFromName(name, 1, used_short_names), "none")
         ELSE InferFromRemaining(ALPHA_CHARS \ used_short_names, pop)
    ELSE ShortName(short_name, "none")

\* one call of _get_short_name: the parameter name, self._short_names.get(name)
\* ("" stands for None), the set it was given, and what it returned or raised
Named(dec, name, given, used_short_names, r) ==
    [name |-> name, given |-> given, infer |-> dec.infer_short_names,
     used |-> used_short_names, short_name |-> r.short_name, error |-> r.error]

\* BaseDecorator._get_short_name
get_short_name(dec, name, used_short_names, pop) ==
    Named(dec, name, DictGet(dec.short_names, name, ""), used_short_names,
          get_short_name_given(dec, name, DictGet(dec.short_names, name, ""),
                               used_short_names, pop))

\* str.startswith
StartsWith(s, prefix) ==
    Len(s) >= Len(prefix) /\ SubSeq(s, 1, Len(prefix)) = prefix

\* the prefix of the long name of a flag that is declared negated
NoPrefix == <<"n", "o", "-">>

\* a declaration "--on" or "--on/--off"; <<>> stands for no off spelling
Decl(on, off) == [on |-> on, off |-> off]

\* a faulty declaration that never looks for the prefix
long_name_decl_unstripped(param, long_name) ==
    IF ~param.is_flag THEN Decl(long_name, <<>>)
    ELSE Decl(long_name, NoPrefix \o long_name)

\* BaseDecorator._create_click_parameter, long_name_decl
long_name_decl(param, long_name) ==
    IF ~param.is_flag THEN Decl(long_name, <<>>)
    ELSE IF StartsWith(long_name, NoPrefix)
    THEN Decl(SubSeq(long_name, 4, Len(long_name)), long_name)
    ELSE Decl(long_name, NoPrefix \o long_name)

\* click.Option(param_decls, type=, required=, default=, nargs=, is_flag=);
\* param_decls holds the declaration of the long name and, if there is one,
\* the short name.  click names the parameter after the first long option
\* declared, which for "--on/--off" is the on spelling.
Option(decl, short_name, type, types, required, default, nargs, is_flag) ==
    [kind |-> "option", name |-> ClickName(decl.on), long_name |-> decl.on,
     secondary |-> decl.off, short_name |-> short_name,
     type |-> type, types |-> types, required |-> required, default |-> default,
     nargs |-> nargs, is_flag |-> is_flag]

\* click.Argument([long_name], type=, default=, nargs=): no `required` is
\* passed, and click then requires the argument only if its default is None
Argument(long_name, type, default, nargs) ==
    [kind |-> "argument", name |-> ClickName(long_name), long_name |-> long_name,
     secondary |-> <<>>, short_name |-> "",
     type |-> type, types |-> <<>>, required |-> default = None, default |-> default,
     nargs |-> nargs, is_flag |-> FALSE]

\* the click parameters created, the used short names then, the calls of
\* _get_short_name made, and the exception raised
Created(params, used_short_names, named, error) ==
    [params |-> params, used |-> used_short_names, named |-> named, error |-> error]

\* a faulty bookkeeping in which no short name is ever added to the set
UsedWithNothing(used_short_names, short_name) == used_short_names

\* `if short_name: used_short_names.add(short_name)`
UsedWith(used_short_names, short_name) ==
    IF short_name # "" THEN used_short_names \cup {short_name} ELSE used_short_names

\* BaseDecorator._create_click_parameter, the option branch once
\* _get_short_name has returned or raised
create_option(param, long_name, named, used_short_names) ==
    IF named.error # "none" THEN Created(<<>>, used_short_names, <<named>>, named.error)
    ELSE Created(<<Option(long_name_decl(param, long_name), named.short_name,
                          param.click_type, <<>>,
                          ~param.optional, param.default, param.nargs, param.is_flag)>>,
                 UsedWith(used_short_names, named.short_name), <<named>>, "none")

\* BaseDecorator._create_click_parameter
create_click_parameter(dec, param, long_name_prefix, force_positionals_as_options, used_short_names, pop) ==
    IF param.optional \/ force_positionals_as_options \/ dec.positionals_as_options
    THEN create_option(param, get_long_name(dec, param.name, long_name_prefix),
                       get_short_name(dec, param.name, used_short_names, pop),
                       used_short_names)
    ELSE Created(<<Argument(get_long_name(dec, param.name, long_name_prefix),
                            param.click_type, param.default, param.nargs)>>,
                 used_short_names, <<>>, "none")

\* parameter_infos[name] of a decorator
HasParameter(parameters, name) ==
    \E i \in 1..Len(parameters) : parameters[i].name = name

ParameterNamed(parameters, name) ==
    parameters[CHOOSE i \in 1..Len(parameters) : parameters[i].name = name]

\* the click parameters created so far, with those of one more call
Joined(acc, r) == Created(acc.params \o r.params, r.used, acc.named \o r.named, r.error)

\* Composite.create_click_parameters, expanded: one click parameter per
\* member, in the composite's option order, all drawing on used_short_names
RECURSIVE CreateMembersFrom(_, _, _, _, _, _)
CreateMembersFrom(composite, i, long_name_prefix, force_positionals_as_options, acc, pop) ==
    IF i > Len(composite.dec.option_order) \/ acc.error # "none" THEN acc
    ELSE CreateMembersFrom(composite, i + 1, long_name_prefix,
            force_positionals_as_options,
            Joined(acc, create_click_parameter(composite.dec,
                            ParameterNamed(composite.dec.parameters,
                                           composite.dec.option_order[i]),
                            long_name_prefix, force_positionals_as_options,
                            acc.used, pop)),
            pop)

\* Composite.create_click_parameters, parameters_as_args: one option that
\* takes a tuple, once _get_short_name has returned or raised
create_tuple_option(composite, param, named, used_short_names) ==
    IF named.error # "none" THEN Created(<<>>, used_short_names, <<named>>, named.error)
    ELSE Created(<<Option(Decl(get_long_name(composite.dec, param.name, <<>>), <<>>),
                          named.short_name,
                          PlainType("Tuple"),
                          [i \in 1..Len(composite.dec.option_order) |->
                              ParameterNamed(composite.dec.parameters,
                                             composite.dec.option_order[i]).click_type],
                          ~param.optional,
                          TupleValue([i \in 1..Len(composite.dec.option_order) |->
                              ParameterNamed(composite.dec.parameters,
                                             composite.dec.option_order[i]).default]),
                          Len(composite.dec.option_order), FALSE)>>,
                 UsedWith(used_short_names, named.short_name), <<named>>, "none")

\* a faulty expansion that never prefixes the long names of the members
Composite_create_click_parameters_unprefixed(composite, param, add_prefixes, force_positionals_as_options, used_short_names, pop) ==
    IF composite.parameters_as_args
    THEN create_tuple_option(composite, param,
            get_short_name(composite.dec, param.name, used_short_names, pop),
            used_short_names)
    ELSE CreateMembersFrom(composite, 1, <<>>,
                           force_positionals_as_options,
                           Created(<<>>, used_short_names, <<>>, "none"), pop)

\* Composite.create_click_parameters, the click parameters
Composite_create_click_parameters(composite, param, add_prefixes, force_positionals_as_options, used_short_names, pop) ==
    IF composite.parameters_as_args
    THEN create_tuple_option(composite, param,
            get_short_name(composite.dec, param.name, used_short_names, pop),
            used_short_names)
    ELSE CreateMembersFrom(composite, 1, IF add_prefixes THEN param.name ELSE <<>>,
                           force_positionals_as_options,
                           Created(<<>>, used_short_names, <<>>, "none"), pop)

\* Composite.create_click_parameters, the callback:
\* functools.partial(self.handle_args, param=param, add_prefixes=add_prefixes)
HandleArgsCallback(composite, param, add_prefixes) ==
    [composite |-> composite, param |-> param, add_prefixes |-> add_prefixes]

\* a faulty loop that puts the click parameters of each parameter before
\* those created so far
Built_in_front(acc, r, callbacks) ==
    [params |-> r.params \o acc.params, callbacks |-> callbacks,
     used |-> r.used, named |-> acc.named \o r.named, error |-> r.error]

\* command_params.extend(click_parameters) or .append(click_parameter), and
\* composite_callbacks
Built(acc, r, callbacks) ==
    [params |-> acc.params \o r.params, callbacks |-> callbacks,
     used |-> r.used, named |-> acc.named \o r.named, error |-> r.error]

\* BaseCommandDecorator._create_decorator, one iteration of the loop over the
\* option order, for the parameter and the composite looked up for its type
CreateParametersWith(dec, param, composite, add_prefixes, acc, pop) ==
    IF composite # NoComposite
    THEN Built(acc,
               Composite_create_click_parameters(composite, param, add_prefixes,
                    dec.positionals_as_options, acc.used, pop),
               Append(acc.callbacks, HandleArgsCallback(composite, param, add_prefixes)))
    ELSE Built(acc, create_click_parameter(dec, param, <<>>, FALSE, acc.used, pop),
               acc.callbacks)

\* BaseCommandDecorator._create_decorator, one iteration of the loop:
\* `param = parameter_infos[param_name]`, then the composite of its match type
CreateParameters(dec, param_name, add_prefixes, composites, acc, pop) ==
    IF ~HasParameter(dec.parameters, param_name)
    THEN [acc EXCEPT !.error = "KeyError"]
    ELSE CreateParametersWith(dec, ParameterNamed(dec.parameters, param_name),
            get_composite(ParameterNamed(dec.parameters, param_name).match_type,
                          composites),
            add_prefixes, acc, pop)

\* BaseCommandDecorator._create_decorator: the loop over the option order
RECURSIVE CreateParametersFrom(_, _, _, _, _, _)
CreateParametersFrom(dec, i, add_prefixes, composites, acc, pop) ==
    IF i > Len(dec.option_order) \/ acc.error # "none" THEN acc
    ELSE CreateParametersFrom(dec, i + 1, add_prefixes, composites,
            CreateParameters(dec, dec.option_order[i], add_prefixes, composites,
                             acc, pop),
            pop)

\* click.BaseCommand.allow_extra_arguments and ignore_unknown_options, the
\* class attributes a command has unless they are set on it
DefaultAllowExtraArguments == FALSE

DefaultIgnoreUnknownOptions == FALSE

\* `if self._allow_extra_arguments: click_command.allow_extra_arguments = True`
AllowExtraArguments(dec) ==
    IF dec.allow_extra_arguments THEN TRUE ELSE DefaultAllowExtraArguments

\* `if self._allow_extra_kwargs: click_command.ignore_unknown_options = False`
IgnoreUnknownOptions(dec) ==
    IF dec.allow_extra_kwargs THEN FALSE ELSE DefaultIgnoreUnknownOptions

\* the AutoClickCommand or AutoClickGroup that
\* BaseCommandDecorator._create_decorator returns, with the option order the
\* decorator ended with; commands holds what add_command attached to a group
AutoClickCommand(decorated, dec, built) ==
    [name |-> decorated,
     params |-> built.params,
     conditionals |-> dec.conditionals,
     validations |-> dec.validations,
     composite_callbacks |-> built.callbacks,
     callback |-> decorated,
     used_short_names |-> built.used,
     short_name_calls |-> built.named,
     option_order |-> dec.option_order,
     commands |-> <<>>,
     allow_extra_arguments |-> AllowExtraArguments(dec),
     ignore_unknown_options |-> IgnoreUnknownOptions(dec),
     error |-> IF dec.error # "none" THEN dec.error ELSE built.error]

\* BaseCommandDecorator._create_decorator, after _get_parameter_info
BaseCommandDecorator_create_parameters(decorated, dec, add_prefixes, composites, used_short_names, pop) ==
    AutoClickCommand(decorated, dec,
        CreateParametersFrom(dec, 1, add_prefixes, composites,
                             [params |-> <<>>, callbacks |-> <<>>,
                              used |-> used_short_names, named |-> <<>>,
                              error |-> dec.error],
                             pop))

\* command(used_short_names=, **kwargs)(decorated): an exception of
\* BaseDecorator.__init__ ends it before anything is built; otherwise
\* BaseCommandDecorator._create_decorator.  add_composite_prefixes keeps its
\* default, True.
BaseCommandDecorator_create_decorator(decorated, kwargs, composites, conversions, validations, used_short_names, pop) ==
    IF BaseDecorator(kwargs).error # "none"
    THEN [NoCommand EXCEPT !.name = decorated, !.error = BaseDecorator(kwargs).error]
    ELSE BaseCommandDecorator_create_parameters(decorated,
            GetParameterInfo("Command", decorated, BaseDecorator(kwargs),
                             conversions, validations),
            TRUE, composites, used_short_names, pop)

----------------------------------------------------------------------------
(* The functions a command calls after parsing *)

\* a str holding a parameter name
NameValue(name) == [tag |-> "name", v |-> "str", kw |-> name]

\* what a call returned (the empty dict stands for None) and raised
Returned(result, error) == [result |-> result, error |-> error]

\* the functions the application defines.  b_from_a is a conditional that
\* returns {"b": a} and five_a one that returns {"a": 5}; nonneg and nonzero
\* are validations that raise ValidationError on a negative value and on 0
UserFunction(fn, kwargs) ==
    CASE fn = "b_from_a" ->
           Returned([k \in {n_b} |-> kwargs[n_a]], "none")
      [] fn = "five_a" ->
           Returned([k \in {n_a} |-> Lit("5")], "none")
      [] fn = "nonneg" ->
           Returned(EmptyDict,
                    IF kwargs[n_value] = Lit("-1") THEN "ValidationError" ELSE "none")
      [] fn = "nonzero" ->
           Returned(EmptyDict,
                    IF kwargs[n_value] = Lit("0") THEN "ValidationError" ELSE "none")
      [] OTHER -> Returned(EmptyDict, "none")

\* one call, as the log keeps it
Called(fn, kwargs, error) == [fn |-> fn, kwargs |-> kwargs, error |-> error]

\* the calls a function made, what it returned and what it raised
CallResult(calls, result, error) == [calls |-> calls, result |-> result, error |-> error]

\* fns[1](**kwargs), fns[2](**kwargs), ...: the calls up to the first that raises
RECURSIVE CallInOrder(_, _, _, _)
CallInOrder(fns, i, kwargs, acc) ==
    IF i > Len(fns) \/ acc.error # "none" THEN acc
    ELSE CallInOrder(fns, i + 1, kwargs,
            CallResult(Append(acc.calls,
                           Called(fns[i], kwargs, UserFunction(fns[i], kwargs).error)),
                    UserFunction(fns[i], kwargs).result,
                    UserFunction(fns[i], kwargs).error))

\* a faulty target that calls the wrapped function before its dependencies
TargetWrappedFirst(fn, kwargs) ==
    CallInOrder(<<fn.fn>> \o fn.depends, 1, kwargs, CallResult(<<>>, EmptyDict, "none"))

\* validation.decorator, the target: composite_validation calls every
\* dependency and then f; without dependencies the target is f
Target(fn, kwargs) ==
    CallInOrder(Append(fn.depends, fn.fn), 1, kwargs, CallResult(<<>>, EmptyDict, "none"))

\* call_target, once kwargs holds param_name and value
call_target_with(fn, kwargs) ==
    IF kwargs[n_value] # None
    THEN CallResult(Target(fn, kwargs).calls, EmptyDict, Target(fn, kwargs).error)
    ELSE CallResult(<<>>, EmptyDict, "none")

\* validation.decorator.call_target(**kwargs)
call_target(fn, kwargs) ==
    IF DOMAIN kwargs = {n_param_name, n_value}
    THEN call_target_with(fn, kwargs)
    ELSE IF Cardinality(DOMAIN kwargs) # 1
    THEN CallResult(<<>>, EmptyDict, "ValueError")
    ELSE call_target_with(fn,
            [k \in {n_param_name, n_value} |->
                IF k = n_param_name
                THEN NameValue(CHOOSE name \in DOMAIN kwargs : TRUE)
                ELSE kwargs[CHOOSE name \in DOMAIN kwargs : TRUE]])

\* fn(**fn_kwargs) for a function of a conditionals or validations table
CallFunction(fn, fn_kwargs) ==
    IF fn.kind = "call_target" THEN call_target(fn, fn_kwargs)
    ELSE CallResult(<<Called(fn.fn, fn_kwargs, UserFunction(fn.fn, fn_kwargs).error)>>,
                 UserFunction(fn.fn, fn_kwargs).result,
                 UserFunction(fn.fn, fn_kwargs).error)

\* values.update(result)
DictUpdate(values, result) ==
    [k \in DOMAIN values \cup DOMAIN result |->
        IF k \in DOMAIN result THEN result[k] ELSE values[k]]

\* _apply_to_parsed_args, the body of the inner loop, after fn was called:
\* `if result and update`, the result is written into values
Applied(acc, r, update) ==
    [values |-> IF r.error = "none" /\ update /\ r.result # EmptyDict
                THEN DictUpdate(acc.values, r.result) ELSE acc.values,
     calls |-> acc.calls \o r.calls,
     error |-> r.error]

\* _apply_to_parsed_args, the inner loop `for fn in fns`
RECURSIVE ApplyFunctions(_, _, _, _, _)
ApplyFunctions(fns, i, fn_kwargs, acc, update) ==
    IF i > Len(fns) \/ acc.error # "none" THEN acc
    ELSE ApplyFunctions(fns, i + 1, fn_kwargs,
            Applied(acc, CallFunction(fns[i], fn_kwargs), update), update)

\* _apply_to_parsed_args, `fn_kwargs = dict((param, values.get(param, None)) ...)`
FnKwargs(params, values) ==
    [k \in SeqToSet(params) |-> DictGet(values, k, None)]

\* _apply_to_parsed_args, the outer loop `for params, fns in d.items()`
RECURSIVE ApplyGroups(_, _, _, _)
ApplyGroups(d, g, acc, update) ==
    IF g > Len(d) \/ acc.error # "none" THEN acc
    ELSE ApplyGroups(d, g + 1,
            ApplyFunctions(d[g].fns, 1, FnKwargs(d[g].names, acc.values), acc, update),
            update)

\* _apply_to_parsed_args(d, values, update): the values it leaves, the calls
\* it made and the exception that ended it
apply_to_parsed_args(d, values, update) ==
    ApplyGroups(d, 1, [values |-> values, calls |-> <<>>, error |-> "none"], update)

----------------------------------------------------------------------------
(* Composite.handle_args *)

\* a faulty arg_name that ignores add_prefixes
ArgNameUnprefixed(param, composite_param_name, add_prefixes) == composite_param_name

\* Composite.handle_args, the name of a member's entry in ctx.params
ArgName(param, composite_param_name, add_prefixes) ==
    IF add_prefixes THEN Prefixed(param.name, composite_param_name)
    ELSE composite_param_name

\* the names self._parameters.keys() of a composite, in order
ParameterNames(composite) ==
    [i \in 1..Len(composite.dec.parameters) |-> composite.dec.parameters[i].name]

\* Composite.handle_args, expanded, had it read the members with
\* ctx.params.get instead of ctx.params.pop
PopMembers_kept(composite, params, param, add_prefixes) ==
    [values |-> params,
     kwargs |-> [m \in SeqToSet(ParameterNames(composite)) |->
                    DictGet(params, ArgName(param, m, add_prefixes), None)],
     calls |-> <<>>,
     error |-> "none"]

\* Composite.handle_args, expanded: every member is popped from ctx.params
PopMembers(composite, params, param, add_prefixes) ==
    [values |-> [k \in DOMAIN params \
                        {ArgName(param, m, add_prefixes) :
                            m \in SeqToSet(ParameterNames(composite))} |-> params[k]],
     kwargs |-> [m \in SeqToSet(ParameterNames(composite)) |->
                    DictGet(params, ArgName(param, m, add_prefixes), None)],
     calls |-> <<>>,
     error |-> "none"]

\* dict(zip(names, values))
Zip(names, values) ==
    [k \in {names[i] : i \in 1..(IF Len(names) < Len(values)
                                 THEN Len(names) ELSE Len(values))} |->
        values[CHOOSE i \in 1..Len(names) : names[i] = k]]

\* Composite.handle_args, packed: the validations run on what the
\* conditionals left in kwargs
PackedValidated(values, conds, vals) ==
    [values |-> values,
     kwargs |-> conds.values,
     calls |-> conds.calls \o vals.calls,
     error |-> IF conds.error # "none" THEN conds.error ELSE vals.error]

\* Composite.handle_args, packed: the composite's own conditionals, applied
\* to the kwargs zipped from the tuple, then its own validations
PackedApplied(composite, values, conds) ==
    PackedValidated(values, conds,
        IF conds.error # "none" THEN conds
        ELSE apply_to_parsed_args(composite.dec.validations, conds.values, FALSE))

\* a faulty zip that binds the values of the tuple to the member names from
\* the last to the first
PopTuple_reversed(composite, params, param) ==
    PackedApplied(composite, DictPop(params, param.name),
        apply_to_parsed_args(composite.dec.conditionals,
            Zip([i \in 1..Len(composite.dec.option_order) |->
                    composite.dec.option_order[Len(composite.dec.option_order) + 1 - i]],
                DictGet(params, param.name, TupleValue(<<>>)).kw),
            TRUE))

\* Composite.handle_args, packed: the tuple is popped from ctx.params
PopTuple(composite, params, param) ==
    PackedApplied(composite, DictPop(params, param.name),
        apply_to_parsed_args(composite.dec.conditionals,
            Zip(composite.dec.option_order,
                DictGet(params, param.name, TupleValue(<<>>)).kw),
            TRUE))

\* Composite.handle_args, the condition under which the target is called
ShouldCreate(composite, param, kwargs) ==
    \/ composite.force_create
    \/ ~param.optional
    \/ \E k \in DOMAIN kwargs : Truthy(kwargs[k])

\* Composite.handle_args, the end: ctx.params[param.name] is the object the
\* target returns, or None
StoreComposite(composite, param, popped) ==
    IF popped.error # "none"
    THEN [values |-> popped.values, calls |-> popped.calls, error |-> popped.error]
    ELSE IF ShouldCreate(composite, param, popped.kwargs)
    THEN [values |-> DictSet(popped.values, param.name,
                             Obj(composite.decorated, popped.kwargs)),
          calls |-> Append(popped.calls,
                           Called(composite.decorated, popped.kwargs, "none")),
          error |-> "none"]
    ELSE [values |-> DictSet(popped.values, param.name, None),
          calls |-> popped.calls,
          error |-> "none"]

\* Composite.handle_args(ctx, param, add_prefixes): ctx.params as it leaves
\* them, the calls it made and the exception that ended it
Composite_handle_args(composite, params, param, add_prefixes) ==
    StoreComposite(composite, param,
        IF composite.parameters_as_args
        THEN PopTuple(composite, params, param)
        ELSE PopMembers(composite, params, param, add_prefixes))

----------------------------------------------------------------------------
(* An invocation: click.Command.parse_args, then the deferred pipeline *)

\* the tokens a command line may give for a value of a click type
Tokens(type_name) ==
    CASE type_name = "int" -> {"-1", "0", "1"}
      [] type_name = "str" -> {"", "foo"}
      [] type_name = "float" -> {"0.5"}
      [] type_name = "bool" -> {"on", "off"}
      [] OTHER -> {}

AllTokens == {"-1", "0", "1", "", "foo", "0.5", "on", "off"}

\* what a click parameter may be given: nothing (<<>>), one token, or one
\* token per member for an option that takes a tuple
Supplied(p) ==
    IF p.types = <<>>
    THEN {<<>>} \cup {<<t>> : t \in Tokens(p.type.name)}
    ELSE {<<>>} \cup {a \in [1..Len(p.types) -> AllTokens] :
                        \A i \in 1..Len(p.types) : a[i] \in Tokens(p.types[i].name)}

\* the command lines of a command: what each of its parameters is given
RECURSIVE CommandLines(_, _)
CommandLines(params, i) ==
    IF i > Len(params) THEN {<<>>}
    ELSE {<<a>> \o rest : a \in Supplied(params[i]), rest \in CommandLines(params, i + 1)}

\* the value a click type converts a token to
ConvertToken(type_name, token) ==
    CASE type_name = "str" -> Lit(IF token = "" THEN "''" ELSE "'foo'")
      [] type_name = "bool" -> Lit(IF token = "on" THEN "True" ELSE "False")
      [] OTHER -> Lit(token)

\* click casts the default of a parameter that was not supplied.  A default
\* of inspect.Parameter.empty is a class: click calls it, and casting the
\* instance raises TypeError for every type but str
CastDefault(type_name, default) ==
    IF default # NoDefault THEN Returned(default, "none")
    ELSE IF type_name = "str" THEN Returned(Lit("'<inspect._empty object>'"), "none")
    ELSE Returned(None, "TypeError")

\* the defaults of a tuple option, cast member by member
CastDefaults(p) ==
    Returned(TupleValue([i \in 1..Len(p.types) |->
                            CastDefault(p.types[i].name, p.default.kw[i]).result]),
             IF \E i \in 1..Len(p.types) :
                    CastDefault(p.types[i].name, p.default.kw[i]).error # "none"
             THEN "TypeError" ELSE "none")

\* the value click gives a parameter that was not supplied
DefaultOf(p) ==
    IF p.types = <<>> THEN CastDefault(p.type.name, p.default) ELSE CastDefaults(p)

\* the value click gives a parameter that was supplied
ValueOf(p, tokens) ==
    IF p.types = <<>>
    THEN Returned(ConvertToken(p.type.name, tokens[1]), "none")
    ELSE Returned(TupleValue([i \in 1..Len(p.types) |->
                                 ConvertToken(p.types[i].name, tokens[i])]), "none")

\* click's Parameter.full_process_value: the value supplied, else the
\* default; a required parameter left at None is missing
Processed(p, r) ==
    IF r.error = "none" /\ p.required /\ r.result = None
    THEN Returned(None, "MissingParameter")
    ELSE r

\* click.Command.parse_args, one parameter
ParseParameter(p, tokens, acc) ==
    [values |-> DictSet(acc.values, p.name,
                        Processed(p, IF tokens = <<>> THEN DefaultOf(p)
                                     ELSE ValueOf(p, tokens)).result),
     error |-> Processed(p, IF tokens = <<>> THEN DefaultOf(p)
                            ELSE ValueOf(p, tokens)).error]

\* click.Command.parse_args: ctx.params, or the exception of the first
\* parameter that has none
RECURSIVE ParseFrom(_, _, _, _)
ParseFrom(params, args, i, acc) ==
    IF i > Len(params) \/ acc.error # "none" THEN acc
    ELSE ParseFrom(params, args, i + 1, ParseParameter(params[i], args[i], acc))

ClickParse(params, args) ==
    ParseFrom(params, args, 1, [values |-> EmptyDict, error |-> "none"])

\* a faulty hierarchy in which no exception derives from click's
BasesPlain(exception) == {"Exception"}

\* the base classes of the exceptions an invocation may end with
Bases(exception) ==
    CASE exception = "ValidationError" -> {"UsageError", "ClickException", "Exception"}
      [] exception = "MissingParameter" ->
           {"BadParameter", "UsageError", "ClickException", "Exception"}
      [] OTHER -> {"Exception"}

\* how click's main ends an invocation that raised: a ClickException is
\* shown to the user with a non-zero exit status, any other exception is
\* an uncaught crash
Ending(exception) ==
    IF "ClickException" \in Bases(exception) THEN "usage_error" ELSE "crash"

\* a faulty order of the phases, validations before conditionals
PhasesValidationsFirst == <<"validations", "conditionals", "composites", "callback">>

\* CommandMixin.parse_args, the order of the deferred phases; the user
\* callback is invoked when parse_args has returned
Phases == <<"conditionals", "validations", "composites", "callback">>

PhaseAfter(phase) ==
    IF phase = "parse" THEN Phases[1]
    ELSE Phases[(CHOOSE i \in 1..Len(Phases) : Phases[i] = phase) + 1]

\* the calls of a phase, as the log keeps them
Logged(phase, calls) ==
    [i \in 1..Len(calls) |->
        [phase |-> phase, fn |-> calls[i].fn, kwargs |-> calls[i].kwargs,
         error |-> calls[i].error]]

\* the invocation ends with an exception
Raise(exception) ==
    /\ pc' = "done"
    /\ outcome' = Ending(exception)

\* a phase has run: the invocation goes on with the next, or ends
Continue(phase, r) ==
    /\ ctx' = r.values
    /\ log' = log \o Logged(phase, r.calls)
    /\ IF r.error # "none" THEN Raise(r.error)
       ELSE pc' = PhaseAfter(phase) /\ outcome' = outcome

\* the command is invoked with a command line: click.Command.parse_args
Parsed(args, r) ==
    /\ argv' = args
    /\ ctx' = r.values
    /\ IF r.error # "none" THEN Raise(r.error)
       ELSE pc' = PhaseAfter("parse") /\ outcome' = outcome
    /\ ci' = 1
    /\ UNCHANGED <<regVars, cmd, log>>

Invoke(args) ==
    /\ pc = "idle"
    /\ cmd # NoCommand
    /\ Parsed(args, ClickParse(cmd.params, args))

\* apply_to_parsed_args(self._conditionals, ctx.params, update=True)
ApplyConditionals ==
    /\ pc = "conditionals"
    /\ Continue("conditionals", apply_to_parsed_args(cmd.conditionals, ctx, TRUE))
    /\ UNCHANGED <<regVars, cmd, argv, ci>>

\* apply_to_parsed_args(self._validations, ctx.params, update=False)
ApplyValidations ==
    /\ pc = "validations"
    /\ Continue("validations", apply_to_parsed_args(cmd.validations, ctx, FALSE))
    /\ UNCHANGED <<regVars, cmd, argv, ci>>

\* for callback in self._composite_callbacks: callback(ctx) -- the loop has
\* run every callback
CallbacksDone ==
    /\ pc = "composites"
    /\ ci > Len(cmd.composite_callbacks)
    /\ pc' = PhaseAfter("composites")
    /\ UNCHANGED <<regVars, cmd, argv, ctx, ci, log, outcome>>

\* a composite callback has run
Reassembled(r) ==
    /\ ctx' = r.values
    /\ log' = log \o Logged("composites", r.calls)
    /\ IF r.error # "none" THEN Raise(r.error)
       ELSE pc' = pc /\ outcome' = outcome

\* for callback in self._composite_callbacks: callback(ctx) -- one callback
HandleArgs ==
    /\ pc = "composites"
    /\ ci <= Len(cmd.composite_callbacks)
    /\ Reassembled(Composite_handle_args(cmd.composite_callbacks[ci].composite, ctx,
                                         cmd.composite_callbacks[ci].param,
                                         cmd.composite_callbacks[ci].add_prefixes))
    /\ ci' = ci + 1
    /\ UNCHANGED <<regVars, cmd, argv>>

\* parse_args has returned: click invokes the user callback with ctx.params
InvokeCallback ==
    /\ pc = "callback"
    /\ log' = Append(log, [phase |-> "callback", fn |-> cmd.callback,
                           kwargs |-> ctx, error |-> "none"])
    /\ pc' = "done"
    /\ outcome' = "ok"
    /\ UNCHANGED <<regVars, cmd, argv, ctx, ci>>

----------------------------------------------------------------------------
(* The application: what it registers and the commands it defines *)

\* the commands of the application
Commands == {"simple", "rewrite", "maybe", "pair", "chain", "swapped", "spanned"}

\* the keyword arguments of the decorator of each command
CommandKwargs(decorated) ==
    IF decorated = "rewrite"
    THEN DecoratorKwargs(<<>>, <<Group(<<n_a>>, <<Raw("b_from_a")>>)>>, <<>>, {})
    ELSE IF decorated = "chain"
    THEN DecoratorKwargs(<<>>, <<Group(<<n_a>>, <<Raw("five_a"), Raw("b_from_a")>>)>>,
                         <<>>, {})
    ELSE IF decorated = "swapped"
    THEN DecoratorKwargs(<<n_bar, n_second>>, <<>>, <<>>, {})
    ELSE DefaultKwargs

\* @validation(int) def nonneg(value, param_name): ...
AppValidations ==
    validation("nonneg", "int", <<>>, EmptyDict).validations

\* @composite_type(required=["a"]) class Foo and @composite_type() class Opts
FooAndOpts(parameters_as_args, force_create, validations) ==
    composite_type("Opts", parameters_as_args, force_create, DefaultKwargs,
        composite_type("Foo", parameters_as_args, force_create,
                       DecoratorKwargs(<<>>, <<>>, <<>>, {n_a}),
                       EmptyDict, EmptyDict, validations).composites,
        EmptyDict, validations).composites

\* Foo, Opts and @composite_type(conditionals={("a",): [b_from_a]}) class
\* Span, all with the given parameters_as_args and force_create
AppComposites(parameters_as_args, force_create, validations) ==
    composite_type("Span", parameters_as_args, force_create,
                   DecoratorKwargs(<<>>, <<Group(<<n_a>>, <<Raw("b_from_a")>>)>>, <<>>, {}),
                   FooAndOpts(parameters_as_args, force_create, validations),
                   EmptyDict, validations).composites

\* the module is loaded: the registries hold what the decorators registered
\* and the command is built, with no short name used beforehand; no option
\* of these commands is left without a letter of its name, so that
\* remaining.pop() is not reached and its choice is immaterial
Loaded(decorated, validations, composites) ==
    /\ VALIDATIONS = validations
    /\ COMPOSITES = composites
    /\ CONVERSIONS = EmptyDict
    /\ history = <<>>
    /\ cmd = BaseCommandDecorator_create_decorator(decorated, CommandKwargs(decorated),
                                                   composites, EmptyDict, validations,
                                                   {}, 1)
    /\ argv = <<>>
    /\ pc = "idle"
    /\ ctx = EmptyDict
    /\ ci = 0
    /\ log = <<>>
    /\ outcome = "none"

Init ==
    \E decorated \in Commands, parameters_as_args \in BOOLEAN, force_create \in BOOLEAN :
        Loaded(decorated, AppValidations,
               AppComposites(parameters_as_args, force_create, AppValidations))

Next ==
    \/ \E args \in CommandLines(cmd.params, 1) : Invoke(args)
    \/ ApplyConditionals
    \/ ApplyValidations
    \/ HandleArgs
    \/ CallbacksDone
    \/ InvokeCallback

Spec == Init /\ [][Next]_vars

----------------------------------------------------------------------------
(* The command decorator applied to functions of many shapes *)

\* the functions a command decorator is applied to
BuildCommands ==
    {"simple", "maybe", "plain", "aged", "either", "spread", "loose", "under", "flags"}

\* short_names= of the command decorator
ShortNameDicts ==
    {EmptyDict,
     [k \in {n_bar} |-> "x"],
     [k \in {n_bar} |-> "n"],
     [k \in {n_bar, n_baz} |-> "q"]}

\* used_short_names= of the command decorator
UsedShortNames == {{}, {"x"}, {"a", "A"}, ALPHA_CHARS, ALPHA_CHARS \ {"q", "Z"}}

\* the places remaining.pop() may start from
Pops == {1, Len(LowerCase), Len(LowerCase) + Len(UpperCase)}

\* validations= of the command decorator: {"bar": [check_bar]},
\* {"bar": check_bar} and {("bar",): [check_bar]}
CallerValidations ==
    {<<[name |-> n_bar, fns |-> <<Raw("check_bar")>>]>>,
     <<[name |-> n_bar, fn |-> Raw("check_bar")]>>,
     <<Group(<<n_bar>>, <<Raw("check_bar")>>)>>}

\* the keyword arguments the command decorator is given
BuildKwargs ==
    {[DefaultKwargs EXCEPT !.validations = validations] :
        validations \in CallerValidations}
    \cup
    {[DefaultKwargs EXCEPT !.keep_underscores = FALSE,
                           !.positionals_as_options = positionals_as_options] :
        positionals_as_options \in BOOLEAN}
    \cup
    {[DefaultKwargs EXCEPT !.short_names = short_names,
                           !.infer_short_names = infer_short_names,
                           !.positionals_as_options = positionals_as_options,
                           !.required = required,
                           !.option_order = option_order] :
        short_names \in ShortNameDicts,
        infer_short_names \in BOOLEAN,
        positionals_as_options \in BOOLEAN,
        required \in {{}, {n_tag, n_level}},
        option_order \in {<<>>, <<n_baz>>}}

\* the validations and conversions registered when the decorator is applied:
\* for int, or for PosInt = NewType("PosInt", int)
BuildValidations ==
    {validation("nonneg", type_, <<>>, EmptyDict).validations : type_ \in {"int", "PosInt"}}

BuildConversions ==
    {EmptyDict} \cup
    {conversion("to_int", type_, <<>>, EmptyDict).conversions : type_ \in {"int", "PosInt"}}

\* the registries are filled and no command is built yet
InitBuild ==
    \E parameters_as_args \in BOOLEAN, validations \in BuildValidations,
       conversions \in BuildConversions :
         /\ VALIDATIONS = validations
         /\ CONVERSIONS = conversions
         /\ COMPOSITES = AppComposites(parameters_as_args, FALSE, validations)
         /\ history = <<>>
         /\ RunIdle

\* command(used_short_names=, **kwargs)(decorated); the history keeps what
\* the decorator was given
Command(decorated, kwargs, used_short_names, pop) ==
    LET r == BaseCommandDecorator_create_decorator(decorated, kwargs, COMPOSITES,
                 CONVERSIONS, VALIDATIONS, used_short_names, pop)
    IN /\ Record([op |-> "command", fn |-> decorated, kwargs |-> kwargs,
                  used_short_names |-> used_short_names, pop |-> pop], r.error)
       /\ cmd' = r
       /\ UNCHANGED <<COMPOSITES, CONVERSIONS, VALIDATIONS, argv, pc, ctx, ci, log, outcome>>

\* a decorator is applied once to a function
NextBuild ==
    /\ cmd = NoCommand
    /\ \E decorated \in BuildCommands, kwargs \in BuildKwargs,
          used_short_names \in UsedShortNames, pop \in Pops :
             Command(decorated, kwargs, used_short_names, pop)

SpecBuild == InitBuild /\ [][NextBuild]_vars

----------------------------------------------------------------------------
(* A group and the commands declared under it *)

\* the functions a group decorator is applied to, the functions declared as
\* commands of the group, and the sets the group decorator is given
GroupFunctions == {"loose", "maybe"}

GroupCommands == {"simple", "plain", "aged"}

GroupUsedShortNames == {{}, {"x"}}

\* the keyword arguments of the decorator of a command of the group
GroupCommandKwargs ==
    {DefaultKwargs,
     [DefaultKwargs EXCEPT !.short_names = [k \in {n_bar} |-> "x"]],
     [DefaultKwargs EXCEPT !.positionals_as_options = TRUE]}

\* a faulty decorator that keeps the caller's set object as its own
SharedUsedShortNames(used_short_names) == [own |-> FALSE, members |-> used_short_names]

\* BaseCommandDecorator.__init__, `self._used_short_names = set()` and
\* `self._used_short_names.update(used_short_names)`: the decorator's set is
\* an object of its own that holds the members of the set it was given
OwnUsedShortNames(used_short_names) == [own |-> TRUE, members |-> used_short_names]

\* self.add_command(click_command), reached when the decorator raised
\* nothing.  The group's set holds what the build pass added only if the
\* pass worked on the group's own set object.
AddCommand(click_group, click_command, own) ==
    [click_group EXCEPT
        !.commands = IF click_command.error = "none"
                     THEN Append(@, click_command) ELSE @,
        !.used_short_names = IF own THEN @ ELSE click_command.used_short_names]

\* group(used_short_names=)(decorated).  No option of these functions is
\* left without a letter of its name, so remaining.pop() is not reached.
GroupDecorator(decorated, used_short_names) ==
    LET r == BaseCommandDecorator_create_decorator(decorated, DefaultKwargs, COMPOSITES,
                 CONVERSIONS, VALIDATIONS,
                 OwnUsedShortNames(used_short_names).members, 1)
    IN /\ cmd = NoCommand
       /\ Record([op |-> "group", fn |-> decorated, kwargs |-> DefaultKwargs,
                  used_short_names |-> used_short_names, pop |-> 1], r.error)
       /\ cmd' = r
       /\ UNCHANGED <<COMPOSITES, CONVERSIONS, VALIDATIONS, argv, pc, ctx, ci, log, outcome>>

\* AutoClickGroup.command(**kwargs)(decorated):
\* command(used_short_names=self._used_short_names, **kwargs)(decorated),
\* then add_command
GroupCommand(decorated, kwargs) ==
    LET r == BaseCommandDecorator_create_decorator(decorated, kwargs, COMPOSITES,
                 CONVERSIONS, VALIDATIONS,
                 OwnUsedShortNames(cmd.used_short_names).members, 1)
    IN /\ cmd # NoCommand
       /\ cmd.error = "none"
       /\ Record([op |-> "group.command", fn |-> decorated, kwargs |-> kwargs,
                  used_short_names |-> cmd.used_short_names, pop |-> 1], r.error)
       /\ cmd' = AddCommand(cmd, r, OwnUsedShortNames(cmd.used_short_names).own)
       /\ UNCHANGED <<COMPOSITES, CONVERSIONS, VALIDATIONS, argv, pc, ctx, ci, log, outcome>>

NextGroup ==
    \/ \E decorated \in GroupFunctions, used_short_names \in GroupUsedShortNames :
          GroupDecorator(decorated, used_short_names)
    \/ \E decorated \in GroupCommands, kwargs \in GroupCommandKwargs :
          GroupCommand(decorated, kwargs)

SpecGroup == InitBuild /\ [][NextGroup]_vars

----------------------------------------------------------------------------
(* Registered validations called on a value *)

\* the values a validation is called on
ValidationInputs == {None, Lit("-1"), Lit("0"), Lit("1")}

\* the validation at place i of the list of type_ is called as
\* _apply_to_parsed_args calls it, with the one keyword x = value; ctx and
\* ci keep what it was called with
CallValidation(type_, i, value) ==
    LET r == call_target(VALIDATIONS[type_][i], [k \in {n_x} |-> value])
    IN /\ type_ \in DOMAIN VALIDATIONS
       /\ i \in 1..Len(VALIDATIONS[type_])
       /\ ctx' = [k \in {n_x} |-> value]
       /\ ci' = i
       /\ log' = Logged("validations", r.calls)
       /\ outcome' = (IF r.error = "none" THEN "ok" ELSE Ending(r.error))
       /\ UNCHANGED <<regVars, cmd, argv, pc>>

\* validations are registered for int, with and without dependencies, and
\* the registered validations are called
NextDepends ==
    \/ \E f \in {"nonzero", "bare"},
          depends \in {<<>>, <<"nonneg">>, <<"nonneg", "nonzero">>, <<"nonzero", "nonneg">>} :
             Validation(f, "int", depends)
    \/ \E i \in 1..MaxRegs, value \in ValidationInputs : CallValidation("int", i, value)

SpecDepends == InitRegistry /\ [][NextDepends]_vars

----------------------------------------------------------------------------
(* Properties of an invocation, under Spec *)

\* ctx.params as click left them, before the deferred phases
RawParams == ClickParse(cmd.params, argv).values

\* the place of a phase in the order the specification gives
Rank(phase) ==
    CASE phase = "conditionals" -> 1
      [] phase = "validations" -> 2
      [] phase = "composites" -> 3
      [] phase = "callback" -> 4

\* the kwargs call_target hands a validation of one parameter
ValidationKwargs(name, value) ==
    [k \in {n_param_name, n_value} |-> IF k = n_param_name THEN NameValue(name) ELSE value]

\* C1: the calls of an invocation are made phase by phase: every conditional
\* before every validation, every validation before every composite callback,
\* and those before the user callback.  So in rewrite, whose conditional
\* writes a into b, the validation of b is called with the value of a, not
\* with the b of the command line.
C1_PhasesInOrder ==
    /\ \A i, j \in 1..Len(log) :
          i < j => Rank(log[i].phase) <= Rank(log[j].phase)
    /\ \A i \in 1..Len(log) :
          (/\ cmd.name = "rewrite"
           /\ log[i].phase = "validations"
           /\ log[i].kwargs[n_param_name] = NameValue(n_b))
             => /\ log[i].kwargs[n_value] = RawParams[n_a]
                /\ \E j \in 1..(i - 1) :
                      log[j].phase = "conditionals" /\ log[j].fn = "b_from_a"
    /\ (cmd.name = "rewrite" /\ pc \in {"composites", "callback"})
          => \E i \in 1..Len(log) :
                log[i] = [phase |-> "validations", fn |-> "nonneg",
                          kwargs |-> ValidationKwargs(n_b, RawParams[n_a]),
                          error |-> "none"]

\* C1 happens: rewrite was given b = -1, which nonneg rejects, and a = 1; the
\* validation of b was called with 1 and the user callback was invoked
C1_Witness ==
    /\ cmd.name = "rewrite"
    /\ outcome = "ok"
    /\ RawParams[n_b] = Lit("-1")
    /\ RawParams[n_a] = Lit("1")
    /\ UserFunction("nonneg", ValidationKwargs(n_b, RawParams[n_b])).error
          = "ValidationError"
    /\ \E i \in 1..Len(log) :
          log[i] = [phase |-> "validations", fn |-> "nonneg",
                    kwargs |-> ValidationKwargs(n_b, Lit("1")), error |-> "none"]

\* C2: a validation that raises ValidationError in the validation phase is
\* the last call of the invocation -- no later validation, no composite
\* callback and no user callback follows -- and the invocation ends as a
\* usage error, not as a crash.
C2_ValidationErrorAborts ==
    \A i \in 1..Len(log) :
        (log[i].phase = "validations" /\ log[i].error = "ValidationError")
           => /\ i = Len(log)
              /\ pc = "done"
              /\ outcome = "usage_error"

\* C2 happens: in rewrite the validation of a raised, with the validation of
\* b and the callback of foo still to run
C2_Witness ==
    /\ cmd.name = "rewrite"
    /\ Len(cmd.validations) = 2
    /\ Len(cmd.composite_callbacks) = 1
    /\ Len(log) = 2
    /\ log[2] = [phase |-> "validations", fn |-> "nonneg",
                 kwargs |-> ValidationKwargs(n_a, Lit("-1")),
                 error |-> "ValidationError"]
    /\ n_foo \notin DOMAIN ctx
    /\ outcome = "usage_error"

\* the composite callback at place c has run and raised nothing
CallbackRan(c) ==
    /\ pc \in {"composites", "callback", "done"}
    /\ c < ci
    /\ outcome \in {"none", "ok"}

\* the raw values of the members of the composite of a callback, as parsed
MemberValues(cb) ==
    IF cb.composite.parameters_as_args
    THEN Zip(cb.composite.dec.option_order, RawParams[cb.param.name].kw)
    ELSE [m \in SeqToSet(ParameterNames(cb.composite)) |->
             RawParams[Prefixed(cb.param.name, m)]]

\* C3: when the callback of an expanded composite has run, every validation
\* registered for the match type of a member has been called in the
\* validation phase with the member's raw value (a value of None is not
\* validated).
C3_MemberValidationsRun ==
    \A c \in 1..Len(cmd.composite_callbacks) :
        LET cb == cmd.composite_callbacks[c]
        IN (CallbackRan(c) /\ ~cb.composite.parameters_as_args)
              => \A m \in 1..Len(cb.composite.dec.parameters) :
                    LET member == cb.composite.dec.parameters[m]
                        raw == MemberValues(cb)[member.name]
                    IN (member.match_type \in DOMAIN VALIDATIONS /\ raw # None)
                          => \A v \in 1..Len(VALIDATIONS[member.match_type]) :
                                \E i \in 1..Len(log) :
                                   /\ log[i].phase = "validations"
                                   /\ log[i].fn = VALIDATIONS[member.match_type][v].fn
                                   /\ log[i].kwargs[n_value] = raw

\* the target of the composite of a callback was called
TargetCalled(cb) ==
    \E i \in 1..Len(log) :
        log[i].phase = "composites" /\ log[i].fn = cb.composite.decorated

\* C4: a composite callback stores None, and does not call the target, if and
\* only if the parameter is optional, force_create is false and every member
\* value is None; otherwise it calls the target with the member values.
C4_SkipsOnlyWhenAllNone ==
    \A c \in 1..Len(cmd.composite_callbacks) :
        LET cb == cmd.composite_callbacks[c]
            skip == /\ cb.param.optional
                    /\ ~cb.composite.force_create
                    /\ \A m \in DOMAIN MemberValues(cb) : MemberValues(cb)[m] = None
        IN CallbackRan(c)
              => IF skip
                 THEN ctx[cb.param.name] = None /\ ~TargetCalled(cb)
                 ELSE /\ ctx[cb.param.name] = Obj(cb.composite.decorated, MemberValues(cb))
                      /\ TargetCalled(cb)

\* the place of the click parameter with a name among the command's
ParamIndex(name) == CHOOSE i \in 1..Len(cmd.params) : cmd.params[i].name = name

\* the member of a composite parameter was given on the command line
MemberSupplied(cb, m) ==
    argv[ParamIndex(IF cb.composite.parameters_as_args THEN cb.param.name
                    ELSE Prefixed(cb.param.name, m))] # <<>>

\* cls(**given): a parameter that is not given takes its declared default
Construct(cls, given) ==
    Obj(cls, [m \in {Signature(cls)[i].name : i \in 1..Len(Signature(cls))} |->
                IF m \in DOMAIN given THEN given[m]
                ELSE Signature(cls)[CHOOSE i \in 1..Len(Signature(cls)) :
                                        Signature(cls)[i].name = m].default])

\* C5: a member that has a declared default and is not given on the command
\* line reaches the target as that default, so the object stored equals the
\* target called with the members given (for a composite without
\* conditionals of its own, which would rewrite them); simple, given only
\* num = 1, calls
\* its callback with foo = Foo(num=1, name='foo'), bar = 1, baz = None.
C5_MembersDefault ==
    /\ \A c \in 1..Len(cmd.composite_callbacks) :
          LET cb == cmd.composite_callbacks[c]
              given == [m \in {k \in DOMAIN MemberValues(cb) : MemberSupplied(cb, k)} |->
                           MemberValues(cb)[m]]
          IN (CallbackRan(c) /\ TargetCalled(cb) /\ cb.composite.dec.conditionals = <<>>)
                => ctx[cb.param.name] = Construct(cb.composite.decorated, given)
    /\ (/\ cmd.name = "simple"
        /\ argv = << <<"1">>, <<>>, <<>>, <<>> >>
        /\ pc = "done")
          => /\ outcome = "ok"
             /\ log[Len(log)].phase = "callback"
             /\ log[Len(log)].fn = "simple"
             /\ log[Len(log)].kwargs =
                   [k \in {n_foo, n_bar, n_baz} |->
                       IF k = n_foo
                       THEN Construct("Foo", [m \in {n_num} |-> Lit("1")])
                       ELSE IF k = n_bar THEN Lit("1") ELSE None]

\* C5 happens: simple was given only num = 1 and its callback was invoked
\* with a Foo whose name is the default
C5_Witness ==
    /\ cmd.name = "simple"
    /\ argv = << <<"1">>, <<>>, <<>>, <<>> >>
    /\ outcome = "ok"
    /\ ctx[n_foo] = Obj("Foo", [m \in {n_num, n_name} |->
                                   IF m = n_num THEN Lit("1") ELSE Lit("'foo'")])

----------------------------------------------------------------------------
(* Properties of the composite registry, under SpecComposites *)

\* the step made a registration API call
CallMade == history' # history

\* the step registered a composite, by either decorator
CompositeCallMade ==
    CallMade /\ lastCall'.op \in {"composite_type", "composite_factory"}

\* the callable declares *args or **kwargs
HasVariadic(target) ==
    \E i \in 1..Len(Signature(target)) :
        Signature(target)[i].kind \in {VAR_POSITIONAL, VAR_KEYWORD}

\* the callable has a parameter whose type is a key of the composite registry
HasCompositeParameter(target, composites) ==
    \E i \in 1..Len(Signature(target)) :
        StripOptional(Signature(target)[i].annotation) \in DOMAIN composites

\* the call names no destination type and its function has no return annotation
NoDestType(call) ==
    call.op = "composite_factory" /\ call.type = "None"
        /\ ReturnAnnotation(call.fn) \in {EMPTY, "None"}

\* the type a composite registration call is for
TargetType(call) ==
    IF call.op = "composite_factory" /\ call.type = "None"
    THEN ReturnAnnotation(call.fn)
    ELSE call.type

\* C6: registering a composite whose target callable has a parameter of a
\* registered composite type raises SignatureError and adds nothing to the
\* composite registry.
C6_NestedCompositeRaises ==
    [][(CompositeCallMade /\ HasCompositeParameter(lastCall'.fn, COMPOSITES))
          => (lastError' = "SignatureError" /\ COMPOSITES' = COMPOSITES)]_vars

C8_VariadicRaisesSignatureError ==
    [][(CompositeCallMade /\ HasVariadic(lastCall'.fn))
          => (lastError' = "SignatureError" /\ COMPOSITES' = COMPOSITES)]_vars

\* C8, amended: registering a composite whose callable declares *args or
\* **kwargs leaves the registry unchanged and raises SignatureError, except
\* that a factory given no destination type and having no return annotation
\* raises ValueError before its signature is inspected.
C8_VariadicRaises ==
    [][(CompositeCallMade /\ HasVariadic(lastCall'.fn))
          => /\ lastError' = (IF NoDestType(lastCall')
                              THEN "ValueError" ELSE "SignatureError")
             /\ COMPOSITES' = COMPOSITES]_vars

\* C8 happens: the class Var, with *args, was refused after Foo was registered
C8_Witness ==
    /\ lastCall = Call("composite_type", "Var", "Var", <<>>)
    /\ lastError = "SignatureError"
    /\ DOMAIN COMPOSITES = {"Foo"}

----------------------------------------------------------------------------
(* Properties of the conversion registry, under SpecConversions *)

\* the call at place i of the history registered a conversion for type_
RegistersConversion(i, type_) ==
    /\ history[i].call.op = "conversion"
    /\ history[i].error = "none"
    /\ type_ = (IF history[i].call.type = "None"
                THEN ReturnAnnotation(history[i].call.fn)
                ELSE history[i].call.type)

\* the place of the last conversion registered for type_ among the first n
\* calls, 0 if there is none
LastConversion(n, type_) ==
    IF \E i \in 1..n : RegistersConversion(i, type_)
    THEN CHOOSE i \in 1..n :
            /\ RegistersConversion(i, type_)
            /\ \A j \in (i + 1)..n : ~RegistersConversion(j, type_)
    ELSE 0

\* the types conversions are registered and looked up for
ConversionTypes == {"int", "Foo"}

\* C9: the conversion looked up for a type is the one most recently registered
\* for it, so that registering a function again changes nothing; a
\* registration that names its type, or whose function has a return
\* annotation, raises no error however many came before; and a conversion
\* calls the registered function once (the type itself when none is
\* registered).
C9_LastConversionWins ==
    /\ \A type_ \in ConversionTypes :
          LET last == LastConversion(nreg, type_)
          IN IF last = 0 THEN type_ \notin DOMAIN CONVERSIONS
             ELSE /\ type_ \in DOMAIN CONVERSIONS
                  /\ CONVERSIONS[type_].fn = history[last].call.fn
                  /\ CONVERSIONS[type_].depends = history[last].call.depends
                  /\ CONVERSIONS[type_].adapter
    /\ \A i \in 1..nreg :
          (/\ history[i].call.op = "conversion"
           /\ (history[i].call.type # "None"
                 \/ ReturnAnnotation(history[i].call.fn) \notin {EMPTY, "None"}))
             => history[i].error = "none"
    /\ \A i \in 1..nreg :
          LET last == LastConversion(i - 1, history[i].call.type)
          IN (/\ history[i].call.op = "convert"
              /\ history[i].error = "none")
                => history[i].call.depends =
                      <<IF last = 0 THEN history[i].call.type
                        ELSE history[last].call.fn>>

\* C9 happens: to_int, then parse, were registered for int, and a conversion
\* to int called parse, once
C9_Witness ==
    /\ nreg = 3
    /\ history[1] = [call |-> Call("conversion", "to_int", "None", <<>>), error |-> "none"]
    /\ history[2] = [call |-> Call("conversion", "parse", "int", <<>>), error |-> "none"]
    /\ history[3] = [call |-> Call("convert", "None", "int", <<"parse">>), error |-> "none"]

----------------------------------------------------------------------------
(* Properties of the validation registry, under SpecValidations *)

\* the call at place i of the history registered a validation for type_,
\* named in the call or inferred from the function's first parameter
RegistersValidation(i, type_) ==
    /\ history[i].call.op = "validation"
    /\ history[i].error = "none"
    /\ type_ = (IF history[i].call.type = "None"
                THEN Signature(history[i].call.fn)[1].annotation
                ELSE history[i].call.type)

\* the validations registered for type_ by the first n calls, in call order
ValidationsFor(n, type_) ==
    LET places == {i \in 1..n : RegistersValidation(i, type_)}
        nth[k \in 1..Cardinality(places)] ==
            CHOOSE i \in places : Cardinality({j \in places : j < i}) = k - 1
    IN [k \in 1..Cardinality(places) |->
            CallTarget(history[nth[k]].call.fn, history[nth[k]].call.depends)]

\* the types validations are registered for
ValidationTypes == {"int", "str"}

\* C10: the validation list of each type holds exactly the validations
\* registered for it, in registration order.
C10_ValidationsAccumulate ==
    \A type_ \in ValidationTypes :
        DictGet(VALIDATIONS, type_, <<>>) = ValidationsFor(nreg, type_)

\* C11: a validation decorated without a match type is registered under the
\* annotation of the first parameter of the decorated function: when the
\* decorator has returned, the validations looked up for that type hold it.
C11_InferredTypeRegistered ==
    [][(/\ CallMade
        /\ lastCall'.op = "validation"
        /\ lastCall'.type = "None"
        /\ lastError' = "none")
          => CallTarget(lastCall'.fn, lastCall'.depends)
                \in SeqToSet(get_validations(Signature(lastCall'.fn)[1].annotation,
                                             VALIDATIONS'))]_vars

----------------------------------------------------------------------------
(* Properties of validations with dependencies, under SpecDepends *)

\* the functions the validation at place i of the list of int calls, in the
\* order the specification gives: the dependencies as listed, then the
\* wrapped function
DependsThenWrapped(i) ==
    VALIDATIONS["int"][i].depends \o <<VALIDATIONS["int"][i].fn>>

\* the places among fns of the functions that raise on value
Raising(fns, value) ==
    {j \in 1..Len(fns) : UserFunction(fns[j], ValidationKwargs(n_x, value)).error # "none"}

\* the calls expected of fns on value: each in order, up to and including the
\* first that raises
ExpectedCalls(fns, value) ==
    [j \in 1..(IF Raising(fns, value) = {} THEN Len(fns)
               ELSE CHOOSE k \in Raising(fns, value) :
                        \A m \in Raising(fns, value) : k <= m) |->
        [phase |-> "validations", fn |-> fns[j],
         kwargs |-> ValidationKwargs(n_x, value),
         error |-> UserFunction(fns[j], ValidationKwargs(n_x, value)).error]]

\* a validation registered with dependencies has been called
DependentCalled ==
    /\ outcome # "none"
    /\ VALIDATIONS["int"][ci].depends # <<>>

\* C12 as the specification states it: a validation registered with
\* dependencies, called on any input, has called its dependencies in the
\* listed order on that input and then the wrapped function, stopping at the
\* first that raised, whose exception ended the call.
C12_DependenciesFirstOnAnyInput ==
    DependentCalled
       => /\ log = ExpectedCalls(DependsThenWrapped(ci), ctx[n_x])
          /\ outcome = (IF Raising(DependsThenWrapped(ci), ctx[n_x]) = {}
                        THEN "ok" ELSE "usage_error")

\* C12, amended: a validation registered with dependencies, called on a
\* value other than None, has called its dependencies in the listed order on
\* that value and then the wrapped function, stopping at the first that
\* raised, whose exception ended the call; called on None it has called
\* nothing and returned.
C12_DependenciesFirst ==
    DependentCalled
       => IF ctx[n_x] = None
          THEN log = <<>> /\ outcome = "ok"
          ELSE /\ log = ExpectedCalls(DependsThenWrapped(ci), ctx[n_x])
               /\ outcome = (IF Raising(DependsThenWrapped(ci), ctx[n_x]) = {}
                             THEN "ok" ELSE "usage_error")

\* C12 happens: bare, depending on nonneg and then nonzero, was called on 0;
\* nonneg passed, nonzero raised and bare was not called
C12_Witness ==
    /\ Len(log) = 2
    /\ log[1].fn = "nonneg" /\ log[1].error = "none"
    /\ log[2].fn = "nonzero" /\ log[2].error = "ValidationError"
    /\ log[1].kwargs = log[2].kwargs
    /\ log[2].kwargs[n_value] = Lit("0")
    /\ outcome = "usage_error"
    /\ VALIDATIONS["int"][ci] = CallTarget("bare", <<"nonneg", "nonzero">>)

----------------------------------------------------------------------------
(* Properties of conversions with dependencies, under SpecConversions *)

\* C13: when the parsing engine converts a raw value with a converter that
\* was registered with dependencies, the conversion raises nothing and calls
\* the dependencies in the listed order and then the decorated function.
C13_DependentConversionComposes ==
    [][(/\ CallMade
        /\ lastCall'.op = "convert"
        /\ lastCall'.type \in DOMAIN CONVERSIONS
        /\ CONVERSIONS[lastCall'.type].adapter
        /\ CONVERSIONS[lastCall'.type].depends # <<>>)
          => /\ lastError' = "none"
             /\ lastCall'.depends = CONVERSIONS[lastCall'.type].depends
                                       \o <<CONVERSIONS[lastCall'.type].fn>>]_vars

----------------------------------------------------------------------------
(* Properties of one build pass, under SpecBuild *)

\* the build pass ended without an exception
BuiltCommand == cmd # NoCommand /\ cmd.error = "none"

\* the places in the command's parameters of the options with a short name
ShortNamed == {i \in 1..Len(cmd.params) : cmd.params[i].short_name # ""}

\* C14: at the end of a successful build pass no two options of the command,
\* whether ordinary options, members of an expanded composite or packed
\* composite options, carry the same short name, and every short name
\* assigned is in the command's set of used short names.
C14_ShortNamesDistinct ==
    BuiltCommand =>
        /\ \A i \in ShortNamed : \A j \in ShortNamed :
              i # j => cmd.params[i].short_name # cmd.params[j].short_name
        /\ \A i \in ShortNamed : cmd.params[i].short_name \in cmd.used_short_names

\* a command built with a set that held "x" before the pass: the member
\* of an expanded composite took "n", and of two ordinary options that
\* share their first letter one took "b" and the other "B"
C14_Witness ==
    /\ BuiltCommand
    /\ cmd.name = "simple"
    /\ history[1].call.used_short_names = {"x"}
    /\ \E i \in ShortNamed : \E j \in ShortNamed : \E k \in ShortNamed :
          /\ cmd.params[i].short_name = "b"
          /\ cmd.params[j].short_name = "B"
          /\ cmd.params[k].short_name = "n"
          /\ cmd.params[i].long_name[1] = cmd.params[j].long_name[1]

\* the calls of _get_short_name of the build pass for which the caller's
\* short_names hold a short name
GivenCalls ==
    {i \in 1..Len(cmd.short_name_calls) : cmd.short_name_calls[i].given # ""}

\* C15: a short name supplied by the caller that is already in the set of
\* used short names ends the build with ParameterCollisionError; a supplied
\* short name that is not in the set is the option's short name, unchanged,
\* whatever the characters of the parameter's name.
C15_GivenShortName ==
    cmd # NoCommand =>
        \A i \in GivenCalls :
           /\ cmd.short_name_calls[i].given =
                 history[1].call.kwargs.short_names[cmd.short_name_calls[i].name]
           /\ IF cmd.short_name_calls[i].given \in cmd.short_name_calls[i].used
              THEN /\ cmd.short_name_calls[i].error = "ParameterCollisionError"
                   /\ cmd.error = "ParameterCollisionError"
                   /\ i = Len(cmd.short_name_calls)
              ELSE /\ cmd.short_name_calls[i].error = "none"
                   /\ cmd.short_name_calls[i].short_name = cmd.short_name_calls[i].given
                   /\ \E j \in 1..Len(cmd.params) :
                         /\ cmd.params[j].name = cmd.short_name_calls[i].name
                         /\ cmd.params[j].short_name = cmd.short_name_calls[i].given

\* short_names gives "q" to both bar and baz: bar, which has no "q" in its
\* name, is created with "q", and baz then raises
C15_Witness ==
    /\ cmd.error = "ParameterCollisionError"
    /\ \E i \in GivenCalls : \E j \in GivenCalls :
          /\ cmd.short_name_calls[i].name = n_bar
          /\ cmd.short_name_calls[i].short_name = "q"
          /\ "q" \notin cmd.short_name_calls[i].used
          /\ cmd.short_name_calls[j].name = n_baz
          /\ cmd.short_name_calls[j].given = "q"
          /\ "q" \in cmd.short_name_calls[j].used

\* no character of the name is a letter whose lower-case or upper-case form
\* is outside the set
NoFreeChar(name, used_short_names) ==
    \A k \in 1..Len(name) :
        IsAlpha(name[k]) =>
            Lower(name[k]) \in used_short_names /\ Upper(name[k]) \in used_short_names

\* the calls of _get_short_name of the build pass that infer a short name
\* and find none in the characters of the parameter name
FallbackCalls ==
    {i \in 1..Len(cmd.short_name_calls) :
        /\ cmd.short_name_calls[i].given = ""
        /\ cmd.short_name_calls[i].infer
        /\ NoFreeChar(cmd.short_name_calls[i].name, cmd.short_name_calls[i].used)}

\* C16: when inference finds no character of the parameter name with an
\* unused lower-case or upper-case form, it fails with an error if all 52
\* letters are in the set of used short names, and otherwise returns a letter
\* that is not in the set.
C16_FallbackLetter ==
    cmd # NoCommand =>
        \A i \in FallbackCalls :
           IF ALPHA_CHARS \subseteq cmd.short_name_calls[i].used
           THEN /\ cmd.short_name_calls[i].error = "BadParameter"
                /\ cmd.error = "BadParameter"
                /\ i = Len(cmd.short_name_calls)
           ELSE /\ cmd.short_name_calls[i].error = "none"
                /\ cmd.short_name_calls[i].short_name
                      \in ALPHA_CHARS \ cmd.short_name_calls[i].used

\* a build pass that began with every letter but "q" and "Z" in use: one
\* option took "Z" while "q" was free, another took "q", and the next
\* found no letter left
C16_Witness ==
    /\ cmd.error = "BadParameter"
    /\ \E i \in FallbackCalls : \E j \in FallbackCalls : \E k \in FallbackCalls :
          /\ cmd.short_name_calls[i].short_name = "Z"
          /\ "q" \notin cmd.short_name_calls[i].used
          /\ cmd.short_name_calls[j].short_name = "q"
          /\ cmd.short_name_calls[k].used = ALPHA_CHARS
          /\ cmd.short_name_calls[k].error = "BadParameter"

\* the function the command decorator was applied to and what it was given
BuiltFrom == Signature(history[1].call.fn)

BuiltWith == history[1].call.kwargs

\* the places in the signature of the parameters that are no composites
OrdinaryPlaces ==
    {i \in 1..Len(BuiltFrom) : StripOptional(BuiltFrom[i].annotation) \notin DOMAIN COMPOSITES}

\* the parameter has a default value, None included, or an Optional annotation
HasDefaultOrOptional(sp) == sp.default # NoDefault \/ IsOptional(sp.annotation)

\* the places in the command's parameters of the click parameters of a name
Rendered(name) == {j \in 1..Len(cmd.params) : cmd.params[j].name = name}

\* C17: a parameter that is no composite is rendered as exactly one click
\* parameter, which is an option if and only if the parameter has a default
\* value (None included) or an Optional annotation, or the command forces
\* positionals to options, and a positional argument otherwise.
C17_OptionIffOptional ==
    BuiltCommand =>
        \A i \in OrdinaryPlaces :
           /\ Cardinality(Rendered(BuiltFrom[i].name)) = 1
           /\ \A j \in Rendered(BuiltFrom[i].name) :
                 /\ cmd.params[j].kind \in {"option", "argument"}
                 /\ cmd.params[j].kind = "option"
                       <=> (HasDefaultOrOptional(BuiltFrom[i])
                               \/ BuiltWith.positionals_as_options)

\* C18: a parameter with a default value or an Optional annotation is
\* rendered as a click parameter that is not required; a parameter with
\* neither is rendered as a required positional argument, or as a required
\* option when the command forces positionals to options.
C18_RequiredIffNoDefault ==
    BuiltCommand =>
        \A i \in OrdinaryPlaces : \A j \in Rendered(BuiltFrom[i].name) :
           IF HasDefaultOrOptional(BuiltFrom[i])
           THEN ~cmd.params[j].required
           ELSE /\ cmd.params[j].required
                /\ cmd.params[j].kind =
                      (IF BuiltWith.positionals_as_options THEN "option" ELSE "argument")

\* the members of a Union annotation other than NoneType
NonNone(anno) == UnionArgs(anno) \ {"NoneType"}

\* the places in the signature of the parameters annotated Optional[X], and
\* of those annotated with a union of more than one type besides None
OptionalPlaces == {i \in 1..Len(BuiltFrom) : Cardinality(NonNone(BuiltFrom[i].annotation)) = 1}

UnionPlaces == {i \in 1..Len(BuiltFrom) : Cardinality(NonNone(BuiltFrom[i].annotation)) > 1}

\* the click type of a parameter resolved to the type t: the conversion
\* registered for t, else t itself, or the type t is a NewType of
ResolvedTo(type, t) ==
    IF t \in DOMAIN CONVERSIONS THEN type = CONVERSIONS[t]
    ELSE type = PlainType(IF Supertype(t) # EMPTY THEN Supertype(t) ELSE t)

Aliases(anno) == {t \in {anno} \cup NonNone(anno) : Supertype(t) # EMPTY}

\* the validations the command holds for one parameter name
ValidationsOf(name) ==
    {i \in 1..Len(cmd.validations) : name \in SeqToSet(cmd.validations[i].names)}

\* C20: for a parameter annotated with a NewType A of a base type B, the
\* conversion and the validations are looked up under A: the click type is
\* the conversion registered for A and otherwise B itself, never the
\* conversion registered only for B; the parameter's validations are those
\* registered for A, and none when validations are registered only for B.
C20_AliasLookup ==
    BuiltCommand =>
        \A i \in 1..Len(BuiltFrom) : \A a \in Aliases(BuiltFrom[i].annotation) :
           /\ Rendered(BuiltFrom[i].name) # {}
           /\ \A j \in Rendered(BuiltFrom[i].name) :
                 IF a \in DOMAIN CONVERSIONS
                 THEN cmd.params[j].type = CONVERSIONS[a]
                 ELSE /\ cmd.params[j].type = PlainType(Supertype(a))
                      /\ Supertype(a) \in DOMAIN CONVERSIONS
                            => cmd.params[j].type # CONVERSIONS[Supertype(a)]
           /\ IF a \in DOMAIN VALIDATIONS
              THEN \E k \in ValidationsOf(BuiltFrom[i].name) :
                      cmd.validations[k] = Group(<<BuiltFrom[i].name>>, VALIDATIONS[a])
              ELSE ValidationsOf(BuiltFrom[i].name) = {}

\* age is annotated PosInt = NewType("PosInt", int) and b is annotated int.
\* With a conversion registered for PosInt and a validation registered for
\* int only, age is converted by the conversion and has no validation, and
\* b keeps the plain int and has the validation.
C20_Witness ==
    /\ BuiltCommand
    /\ cmd.name = "aged"
    /\ DOMAIN CONVERSIONS = {"PosInt"}
    /\ DOMAIN VALIDATIONS = {"int"}
    /\ \E j \in Rendered(n_age) : cmd.params[j].type = CONVERSIONS["PosInt"]
    /\ ValidationsOf(n_age) = {}
    /\ \E j \in Rendered(n_b) : cmd.params[j].type = PlainType("int")
    /\ ValidationsOf(n_b) # {}

\* the places in the signature of *args and of **kwargs
VarPositionalPlaces == {i \in 1..Len(BuiltFrom) : BuiltFrom[i].kind = VAR_POSITIONAL}

VarKeywordPlaces == {i \in 1..Len(BuiltFrom) : BuiltFrom[i].kind = VAR_KEYWORD}

\* C21: *args and **kwargs of a command function produce no click
\* parameter and no entry in the option order; *args makes the command
\* accept extra positional tokens, and **kwargs makes it ignore unknown
\* options instead of ending with an error on them.
C21_VariadicsToggleFlags ==
    BuiltCommand =>
        /\ \A i \in VarPositionalPlaces \cup VarKeywordPlaces :
              /\ Rendered(BuiltFrom[i].name) = {}
              /\ BuiltFrom[i].name \notin SeqToSet(cmd.option_order)
        /\ VarPositionalPlaces # {} => cmd.allow_extra_arguments
        /\ VarKeywordPlaces # {} => cmd.ignore_unknown_options

----------------------------------------------------------------------------
(* Properties of composite parameters of one type, under Spec *)

\* the places in the command's parameters of the click parameters declared
\* with a long name
LongNamed(long_name) ==
    {j \in 1..Len(cmd.params) : cmd.params[j].long_name = long_name}

\* the keys of ctx.params that hold the members of the composite of a callback
MemberKeys(cb) ==
    IF cb.composite.parameters_as_args THEN {cb.param.name}
    ELSE {Prefixed(cb.param.name, m) : m \in SeqToSet(ParameterNames(cb.composite))}

\* C22: with add_composite_prefixes left on, every member of an expanded
\* composite parameter p is one click parameter with the long name p_member,
\* and no two click parameters of the command share a long name, also when
\* two parameters have the same composite type.  A callback leaves the
\* members of the callbacks still to run as they were parsed, and stores for
\* its own parameter an object constructed from its own members' values
\* (as parsed, when the composite has no conditionals of its own).
C22_PrefixedMembers ==
    /\ \A i \in 1..Len(cmd.params) : \A j \in 1..Len(cmd.params) :
          i # j => cmd.params[i].long_name # cmd.params[j].long_name
    /\ \A c \in 1..Len(cmd.composite_callbacks) :
          /\ ~cmd.composite_callbacks[c].composite.parameters_as_args
                => \A m \in SeqToSet(ParameterNames(cmd.composite_callbacks[c].composite)) :
                      Cardinality(LongNamed(Prefixed(
                          cmd.composite_callbacks[c].param.name, m))) = 1
          /\ (pc = "composites" /\ c >= ci)
                => \A k \in MemberKeys(cmd.composite_callbacks[c]) :
                      k \in DOMAIN ctx /\ ctx[k] = RawParams[k]
          /\ (CallbackRan(c) /\ ~cmd.composite_callbacks[c].param.optional)
                => MemberKeys(cmd.composite_callbacks[c]) \cap DOMAIN ctx
                      \subseteq {cmd.composite_callbacks[c].param.name}
          /\ (/\ CallbackRan(c)
              /\ ~cmd.composite_callbacks[c].param.optional
              /\ cmd.composite_callbacks[c].composite.dec.conditionals = <<>>)
                => ctx[cmd.composite_callbacks[c].param.name]
                         = Obj(cmd.composite_callbacks[c].composite.decorated,
                               MemberValues(cmd.composite_callbacks[c]))

\* pair(first: Foo, second: Foo), expanded, was invoked with different
\* numbers for first and for second: the user callback got two objects, each
\* with the number given for it
C22_Witness ==
    /\ cmd.name = "pair"
    /\ outcome = "ok"
    /\ Len(cmd.params) = 4
    /\ RawParams[Prefixed(n_first, n_num)] = Lit("0")
    /\ RawParams[Prefixed(n_second, n_num)] = Lit("1")
    /\ ctx[n_first].kw[n_num] = Lit("0")
    /\ ctx[n_second].kw[n_num] = Lit("1")
    /\ DOMAIN ctx = {n_first, n_second}

----------------------------------------------------------------------------
(* Properties of a group and its commands, under SpecGroup *)

\* the command of the group that the call at place i of the history added
CommandAt(i) ==
    cmd.commands[Cardinality({j \in 2..i : history[j].error = "none"})]

\* two commands declared under the group with the same function and the same
\* keyword arguments are alike: the earlier left nothing behind for the later
SiblingsAlike ==
    \A i \in 2..Len(history) : \A j \in 2..Len(history) :
        (/\ history[i].error = "none"
         /\ history[j].error = "none"
         /\ history[i].call.fn = history[j].call.fn
         /\ history[i].call.kwargs = history[j].call.kwargs)
           => CommandAt(i) = CommandAt(j)

\* a command was declared under the group in this step
DeclaresCommand ==
    /\ Len(history') = Len(history) + 1
    /\ history'[Len(history')].call.op = "group.command"

\* the short names of the options of a command
ShortNamesOf(click_command) ==
    {click_command.params[j].short_name : j \in 1..Len(click_command.params)} \ {""}

\* C23: declaring a command under a group leaves the group's set of used
\* short names and the registered composites as they were, whether or not
\* the build raises; the command's own set starts from the members of the
\* group's set, which none of its options takes; and sibling commands are
\* built alike, so a letter taken by one is free for the next.
C23_NoLeak ==
    /\ []SiblingsAlike
    /\ [][DeclaresCommand =>
             /\ cmd'.used_short_names = cmd.used_short_names
             /\ COMPOSITES' = COMPOSITES
             /\ \A k \in (Len(cmd.commands) + 1)..Len(cmd'.commands) :
                   /\ cmd.used_short_names \subseteq cmd'.commands[k].used_short_names
                   /\ ShortNamesOf(cmd'.commands[k]) \cap cmd.used_short_names = {}
                   /\ cmd'.commands[k].used_short_names
                         = cmd.used_short_names \cup ShortNamesOf(cmd'.commands[k])]_vars

\* the group loose took "b" for its option bar; simple was declared under it
\* twice, and both times its option bar took "B" and its option baz "a"
C23_Witness ==
    /\ cmd.name = "loose"
    /\ cmd.used_short_names = {"b"}
    /\ Len(cmd.commands) = 2
    /\ \A k \in 1..2 :
          /\ cmd.commands[k].name = "simple"
          /\ "B" \in ShortNamesOf(cmd.commands[k])
          /\ "a" \in ShortNamesOf(cmd.commands[k])
          /\ cmd.commands[k].used_short_names # cmd.used_short_names

----------------------------------------------------------------------------
(* Properties of the conditionals of one group, under Spec *)

\* the keyword arguments a function of a group is to be called with after
\* an earlier function of the group, called with kwargs, returned result
Updated(kwargs, result) ==
    [k \in DOMAIN kwargs |-> IF k \in DOMAIN result THEN result[k] ELSE kwargs[k]]

\* C24: in the conditionals phase the mapping a function returns overwrites
\* the parsed values, and the next function of the same group of parameter
\* names is called with the values so updated.
C24_LaterConditionalsSeeUpdates ==
    \A i \in 1..(Len(log) - 1) :
        (/\ log[i].phase = "conditionals"
         /\ log[i + 1].phase = "conditionals"
         /\ DOMAIN log[i].kwargs = DOMAIN log[i + 1].kwargs)
           => /\ log[i + 1].kwargs
                    = Updated(log[i].kwargs, UserFunction(log[i].fn, log[i].kwargs).result)
              /\ pc = "validations"
                    => \A k \in DOMAIN UserFunction(log[i].fn, log[i].kwargs).result \
                                DOMAIN UserFunction(log[i + 1].fn, log[i + 1].kwargs).result :
                          ctx[k] = UserFunction(log[i].fn, log[i].kwargs).result[k]

----------------------------------------------------------------------------
(* Properties of one callback of an expanded composite, under Spec *)

\* the callback about to run
ThisCallback == cmd.composite_callbacks[ci]

\* the callback of an expanded composite runs in this step
ExpandedCallbackRuns ==
    /\ pc = "composites"
    /\ ci <= Len(cmd.composite_callbacks)
    /\ ci' = ci + 1
    /\ ~ThisCallback.composite.parameters_as_args

\* C25: the callback of an expanded composite leaves ctx.params without any
\* entry under a member's long name and with an entry under the name of the
\* parameter, every other entry as it was; it calls the target at most once,
\* with the values of all members as they were parsed.
C25_ExpandedReassembly ==
    [][ExpandedCallbackRuns
          => /\ MemberKeys(ThisCallback) \cap DOMAIN ctx' = {}
             /\ DOMAIN ctx' = (DOMAIN ctx \ MemberKeys(ThisCallback))
                                 \cup {ThisCallback.param.name}
             /\ \A k \in DOMAIN ctx' \ {ThisCallback.param.name} : ctx'[k] = ctx[k]
             /\ Len(log') <= Len(log) + 1
             /\ \A i \in (Len(log) + 1)..Len(log') :
                   /\ log'[i].fn = ThisCallback.composite.decorated
                   /\ log'[i].kwargs
                         = [m \in SeqToSet(ParameterNames(ThisCallback.composite)) |->
                               ctx[Prefixed(ThisCallback.param.name, m)]]
                   /\ ctx'[ThisCallback.param.name]
                         = Obj(log'[i].fn, log'[i].kwargs)]_vars

\* pair(first: Foo, second: Foo), expanded: the callback of first has run and
\* that of second has not; first is an object made by the one call of Foo the
\* log holds, and the members of second are still where click put them
C25_Witness ==
    /\ cmd.name = "pair"
    /\ pc = "composites"
    /\ ci = 2
    /\ Len(cmd.params) = 4
    /\ Len(log) = 1
    /\ log[1].fn = "Foo"
    /\ ctx[n_first] = Obj("Foo", log[1].kwargs)
    /\ DOMAIN ctx = {n_first, Prefixed(n_second, n_num), Prefixed(n_second, n_name)}

----------------------------------------------------------------------------
(* Properties of the inference of a short name, under SpecBuild *)

\* the character at place k of the name is a letter with its lower-case or
\* its upper-case form outside the set
FreeAt(name, k, used_short_names) ==
    /\ IsAlpha(name[k])
    /\ (Lower(name[k]) \notin used_short_names \/ Upper(name[k]) \notin used_short_names)

\* the calls of _get_short_name of the build pass that infer a short name
\* and find one in the characters of the parameter name
InferredCalls ==
    {i \in 1..Len(cmd.short_name_calls) :
        /\ cmd.short_name_calls[i].given = ""
        /\ cmd.short_name_calls[i].infer
        /\ ~NoFreeChar(cmd.short_name_calls[i].name, cmd.short_name_calls[i].used)}

\* the first place of the name of a call that has a free letter
FirstFree(call) ==
    CHOOSE k \in 1..Len(call.name) :
        /\ FreeAt(call.name, k, call.used)
        /\ \A j \in 1..(k - 1) : ~FreeAt(call.name, j, call.used)

\* C26: without a short name from the caller and with inference on, the
\* short name is taken from the first character of the parameter name, from
\* the left, that is a letter with an unused lower-case or upper-case form:
\* the lower-case form if it is unused, else the upper-case form.
C26_InferredFromFirstFree ==
    cmd # NoCommand =>
        \A i \in InferredCalls :
           /\ cmd.short_name_calls[i].error = "none"
           /\ cmd.short_name_calls[i].short_name =
                 IF Lower(cmd.short_name_calls[i].name[FirstFree(cmd.short_name_calls[i])])
                       \notin cmd.short_name_calls[i].used
                 THEN Lower(cmd.short_name_calls[i].name[FirstFree(cmd.short_name_calls[i])])
                 ELSE Upper(cmd.short_name_calls[i].name[FirstFree(cmd.short_name_calls[i])])

\* under(a_b: int = 0, bar: int = 1) built with "a" and "A" in use: a_b skips
\* "a" and "_" and takes "b", and bar, finding "b" taken, takes "B"
C26_Witness ==
    /\ cmd.error = "none"
    /\ \E i \in InferredCalls : \E j \in InferredCalls :
          /\ cmd.short_name_calls[i].name = n_a_b
          /\ cmd.short_name_calls[i].used = {"a", "A"}
          /\ cmd.short_name_calls[i].short_name = "b"
          /\ cmd.short_name_calls[j].name = n_bar
          /\ cmd.short_name_calls[j].used = {"a", "A", "b"}
          /\ cmd.short_name_calls[j].short_name = "B"

----------------------------------------------------------------------------
(* Properties of the order of the parameters of a command, under Spec *)

\* option_order= as the decorator of the command was given it
CallerOrder == CommandKwargs(cmd.name).option_order

\* the names of the parameters of the decorated function, as declared
DeclaredNames == [i \in 1..Len(Signature(cmd.name)) |-> Signature(cmd.name)[i].name]

NotInCallerOrder(name) == name \notin SeqToSet(CallerOrder)

\* the place of a parameter in the option order of the command
PlaceOf(name) == CHOOSE i \in 1..Len(cmd.option_order) : cmd.option_order[i] = name

\* the parameter is declared with a composite type
DeclaredComposite(name) ==
    \E i \in 1..Len(Signature(cmd.name)) :
        /\ Signature(cmd.name)[i].name = name
        /\ StripOptional(Signature(cmd.name)[i].annotation) \in DOMAIN COMPOSITES

\* the click parameter at place j is the parameter of that name or holds
\* members of it
Owns(name, j) ==
    \/ cmd.params[j].name = name
    \/ \E c \in 1..Len(cmd.composite_callbacks) :
          /\ cmd.composite_callbacks[c].param.name = name
          /\ cmd.params[j].name \in MemberKeys(cmd.composite_callbacks[c])

OwnerOf(j) == CHOOSE name \in SeqToSet(cmd.option_order) : Owns(name, j)

\* C27: the option order of a command is the order the caller gave followed
\* by the other parameters as declared; the click parameters follow it, each
\* parameter with one click parameter or with those of its members side by
\* side, and the composite callbacks are kept and run in the same order.
C27_ParametersInOptionOrder ==
    /\ cmd.option_order = CallerOrder \o SelectSeq(DeclaredNames, NotInCallerOrder)
    /\ \A j \in 1..Len(cmd.params) :
          Cardinality({name \in SeqToSet(cmd.option_order) : Owns(name, j)}) = 1
    /\ \A name \in SeqToSet(cmd.option_order) :
          IF DeclaredComposite(name)
          THEN \E j \in 1..Len(cmd.params) : Owns(name, j)
          ELSE Cardinality({j \in 1..Len(cmd.params) : Owns(name, j)}) = 1
    /\ \A i \in 1..Len(cmd.params) : \A j \in 1..Len(cmd.params) :
          i < j => PlaceOf(OwnerOf(i)) <= PlaceOf(OwnerOf(j))
    /\ [c \in 1..Len(cmd.composite_callbacks) |-> cmd.composite_callbacks[c].param.name]
          = SelectSeq(cmd.option_order, DeclaredComposite)
    /\ pc = "composites"
          => \A c \in 1..Len(cmd.composite_callbacks) :
                IF c < ci
                THEN /\ MemberKeys(cmd.composite_callbacks[c]) \cap DOMAIN ctx
                           \subseteq {cmd.composite_callbacks[c].param.name}
                     /\ ctx[cmd.composite_callbacks[c].param.name].tag # "tuple"
                ELSE \A k \in MemberKeys(cmd.composite_callbacks[c]) :
                        k \in DOMAIN ctx /\ ctx[k] = RawParams[k]

\* swapped(first: Foo, second: Foo, bar: int = 1) with option_order=["bar",
\* "second"], expanded: the click parameters are bar, the two members of
\* second and the two of first; the callback of second has run and that of
\* first has not
C27_Witness ==
    /\ cmd.name = "swapped"
    /\ cmd.option_order = <<n_bar, n_second, n_first>>
    /\ [j \in 1..Len(cmd.params) |-> cmd.params[j].name]
          = <<n_bar, Prefixed(n_second, n_num), Prefixed(n_second, n_name),
              Prefixed(n_first, n_num), Prefixed(n_first, n_name)>>
    /\ pc = "composites"
    /\ ci = 2
    /\ DOMAIN ctx = {n_bar, n_second, Prefixed(n_first, n_num), Prefixed(n_first, n_name)}

----------------------------------------------------------------------------
(* Properties of the declaration of a flag, under SpecBuild *)

\* the long name of a parameter of the command: the name, with "-" for "_"
\* unless keep_underscores is set
LongNameOf(name) ==
    IF BuiltWith.keep_underscores THEN name ELSE ReplaceChar(name, "_", "-")

\* the on and off spellings the specification gives a flag of a long name
FlagPair(long_name) ==
    IF StartsWith(long_name, NoPrefix)
    THEN <<SubSeq(long_name, Len(NoPrefix) + 1, Len(long_name)), long_name>>
    ELSE <<long_name, NoPrefix \o long_name>>

\* the parameter of the decorated function is annotated bool
DeclaredBool(name) ==
    \E i \in 1..Len(BuiltFrom) :
        BuiltFrom[i].name = name /\ BuiltFrom[i].annotation = "bool"

\* C28: a bool parameter that becomes an option with the long name L is
\* declared "--X/--L" when L is "no-X", and "--L/--no-L" otherwise, whether
\* or not keep_underscores is set.  A command without composite parameters
\* has one click parameter per name of its option order, in that order; the
\* members of an expanded composite carry the name of the parameter as prefix.
C28_FlagPair ==
    (cmd # NoCommand /\ cmd.error = "none") =>
        /\ cmd.composite_callbacks = <<>> =>
              \A j \in 1..Len(cmd.params) :
                 (DeclaredBool(cmd.option_order[j]) /\ cmd.params[j].kind = "option")
                    => <<cmd.params[j].long_name, cmd.params[j].secondary>>
                          = FlagPair(LongNameOf(cmd.option_order[j]))
        /\ \A c \in 1..Len(cmd.composite_callbacks) :
              (Len(cmd.composite_callbacks) = Len(cmd.option_order)
                  /\ ~cmd.composite_callbacks[c].composite.parameters_as_args)
                 => \A j \in 1..Len(cmd.params) :
                       (cmd.params[j].is_flag
                           /\ cmd.params[j].name \in MemberKeys(cmd.composite_callbacks[c]))
                          => <<cmd.params[j].long_name, cmd.params[j].secondary>>
                                = FlagPair(cmd.params[j].name)

\* flags(dry: bool, no_cache: bool = False, verbose: bool = False) built with
\* keep_underscores=False and positionals_as_options=True: --dry/--no-dry,
\* --cache/--no-cache and --verbose/--no-verbose
C28_Witness ==
    /\ cmd.name = "flags"
    /\ cmd.error = "none"
    /\ ~BuiltWith.keep_underscores
    /\ [j \in 1..Len(cmd.params) |-> cmd.params[j].kind] = <<"option", "option", "option">>
    /\ cmd.params[1].long_name = n_dry
    /\ cmd.params[1].secondary = NoPrefix \o n_dry
    /\ cmd.params[2].long_name = <<"c", "a", "c", "h", "e">>
    /\ cmd.params[2].secondary = <<"n", "o", "-", "c", "a", "c", "h", "e">>
    /\ cmd.params[3].long_name = n_verbose

\* the same function built with keep_underscores left set: no_cache is
\* declared --no_cache/--no-no_cache
C28_Kept ==
    /\ cmd.name = "flags"
    /\ cmd.error = "none"
    /\ BuiltWith.keep_underscores
    /\ cmd.params[2].long_name = n_no_cache
    /\ cmd.params[2].secondary = NoPrefix \o n_no_cache

----------------------------------------------------------------------------
(* Properties of a composite packed into one option, under Spec *)

\* the callback of a packed composite runs in this step
PackedCallbackRuns ==
    /\ pc = "composites"
    /\ ci <= Len(cmd.composite_callbacks)
    /\ ci' = ci + 1
    /\ ThisCallback.composite.parameters_as_args

\* the values of the tuple parsed for the callback about to run, the i-th
\* under the i-th name of the composite's option order
Bound ==
    [m \in SeqToSet(ThisCallback.composite.dec.option_order) |->
        ctx[ThisCallback.param.name].kw[
            CHOOSE i \in 1..Len(ThisCallback.composite.dec.option_order) :
                ThisCallback.composite.dec.option_order[i] = m]]

\* the functions of the composite's own conditionals
OwnConditionals ==
    {ThisCallback.composite.dec.conditionals[g].fns[f].fn :
        g \in 1..Len(ThisCallback.composite.dec.conditionals), f \in {1}}

\* the step of handle_args a logged call belongs to
StepOf(call) ==
    IF call.fn = ThisCallback.composite.decorated THEN 3
    ELSE IF call.fn \in OwnConditionals THEN 1
    ELSE 2

\* the members as the composite's conditionals leave them: Span has one,
\* b_from_a, called with a
AfterConditionals ==
    IF OwnConditionals = {} THEN Bound
    ELSE Updated(Bound, UserFunction("b_from_a", [k \in {n_a} |-> Bound[n_a]]).result)

\* C29: a composite with N members that is packed becomes one option that
\* takes N values, with one call of _get_short_name; its callback binds the
\* i-th value of the tuple to the i-th name of the composite's option order,
\* calls the composite's conditionals with those values, then its
\* validations, then the target, the latter two with what the conditionals
\* left.
C29_PackedTuple ==
    /\ [](\A c \in 1..Len(cmd.composite_callbacks) :
            cmd.composite_callbacks[c].composite.parameters_as_args
               => /\ Cardinality({j \in 1..Len(cmd.params) :
                         cmd.params[j].name \in
                            {cmd.composite_callbacks[c].param.name}
                            \cup {Prefixed(cmd.composite_callbacks[c].param.name, m) :
                                    m \in SeqToSet(ParameterNames(
                                             cmd.composite_callbacks[c].composite))}}) = 1
                  /\ \E j \in 1..Len(cmd.params) :
                        /\ cmd.params[j].name = cmd.composite_callbacks[c].param.name
                        /\ cmd.params[j].kind = "option"
                        /\ cmd.params[j].nargs
                              = Len(ParameterNames(cmd.composite_callbacks[c].composite))
                        /\ Len(cmd.params[j].types) = cmd.params[j].nargs
                  /\ Cardinality({i \in 1..Len(cmd.short_name_calls) :
                         cmd.short_name_calls[i].name
                            = cmd.composite_callbacks[c].param.name}) = 1)
    /\ [][PackedCallbackRuns
            => /\ \A i \in (Len(log) + 1)..Len(log') : \A j \in (Len(log) + 1)..Len(log') :
                     i < j => StepOf(log'[i]) <= StepOf(log'[j])
               /\ \A i \in (Len(log) + 1)..Len(log') :
                     CASE StepOf(log'[i]) = 1 ->
                            log'[i].kwargs = [k \in DOMAIN log'[i].kwargs |-> Bound[k]]
                       [] StepOf(log'[i]) = 2 ->
                            \E m \in DOMAIN Bound :
                               log'[i].kwargs = ValidationKwargs(m, AfterConditionals[m])
                       [] OTHER ->
                            /\ log'[i].kwargs = AfterConditionals
                            /\ i = Len(log')
                            /\ ctx'[ThisCallback.param.name]
                                  = Obj(ThisCallback.composite.decorated, AfterConditionals)
               /\ (outcome' \in {"none", "ok"} /\ ~ThisCallback.param.optional)
                     => (Len(log') > Len(log) /\ StepOf(log'[Len(log')]) = 3)
               /\ OwnConditionals # {}
                     => (Len(log') > Len(log) /\ StepOf(log'[Len(log) + 1]) = 1)]_vars

\* spanned(span: Span), packed, invoked with --span 1 -1: the callback called
\* b_from_a with a = 1, then the validations of the members with a = 1 and
\* b = 1, then Span(a=1, b=1)
C29_Witness ==
    /\ cmd.name = "spanned"
    /\ Len(cmd.params) = 1
    /\ cmd.params[1].nargs = 2
    /\ pc \in {"callback", "done"}
    /\ outcome \in {"none", "ok"}
    /\ RawParams[n_span] = TupleValue(<<Lit("1"), Lit("-1")>>)
    /\ Len(log) >= 3
    /\ log[1].fn = "b_from_a"
    /\ log[1].kwargs = [k \in {n_a} |-> Lit("1")]
    /\ log[2].fn = "nonneg"
    /\ ctx[n_span] = Obj("Span", [k \in {n_a, n_b} |-> Lit("1")])

----------------------------------------------------------------------------
(* Properties of the validations a caller passes, under SpecBuild *)

\* the entries of validations= of the build pass that name one parameter
\* whose type has registered validations
CallerValidated ==
    {e \in 1..Len(BuiltWith.validations) :
        \E i \in 1..Len(BuiltFrom) :
           /\ KeyTuple(BuiltWith.validations[e]) = <<BuiltFrom[i].name>>
           /\ BuiltFrom[i].annotation \in DOMAIN VALIDATIONS}

\* the functions the caller gave in an entry, one or a list
GivenFunctions(entry) == IF "fns" \in DOMAIN entry THEN entry.fns ELSE <<entry.fn>>

\* the validations registered for the type of the parameter of a name
RegisteredFor(name) ==
    VALIDATIONS[BuiltFrom[CHOOSE i \in 1..Len(BuiltFrom) : BuiltFrom[i].name = name].annotation]

\* C30: when the caller passes validations for a parameter, as one function
\* or as a list, and validations are registered for the parameter's type,
\* the command is built and holds for the parameter the caller's validations
\* followed by the registered ones.
C30_CallerValidationsKept ==
    cmd # NoCommand =>
        \A e \in CallerValidated :
           /\ cmd.error = "none"
           /\ \E k \in 1..Len(cmd.validations) :
                 cmd.validations[k]
                    = Group(KeyTuple(BuiltWith.validations[e]),
                            GivenFunctions(BuiltWith.validations[e])
                               \o RegisteredFor(KeyTuple(BuiltWith.validations[e])[1]))

====
